---- MODULE Spec2Model ----
(***************************************************************************)
(* A model of mcp-ty: the JSON-RPC client that drives the ty language      *)
(* server (src/mcp_ty/lsp_client.py, class TyLspClient) and the            *)
(* workspace-edit application of the tool layer (src/mcp_ty/server.py).    *)
(*                                                                         *)
(* The client runs on one asyncio event loop.  A coroutine runs without    *)
(* interruption from one suspension point to the next; the variable        *)
(* `running` names the coroutine that holds the loop (NoProc between       *)
(* slices), so the statements of one slice are separate steps of the model *)
(* that no other coroutine can interleave with.                            *)
(***************************************************************************)
EXTENDS Integers, Sequences, FiniteSets, TLC

(***************************************************************************)
(* Bounds of the model.                                                    *)
(***************************************************************************)
NCallers == 2    \* concurrent tool calls
MaxCalls == 2    \* requests the tool calls issue in total
MaxStops == 1    \* calls of stop() on the client the tools use
MaxText == 2        \* characters of a string in an encoded message
MaxFrames == 3      \* frames the child writes while the reader is followed
MaxTableFrames == 1    \* frames the child writes while tools send requests
MaxProjectCalls == 4   \* calls of start_project, stop_project and stop()
NProjectCalls == 3     \* concurrent calls of start_project / stop_project

Callers == 1..NCallers
LC == NCallers + 1   \* the coroutine that calls start() and then stop()
Procs == Callers \cup {LC}
NoProc == 0          \* nobody: an unlocked asyncio.Lock, an idle event loop

\* every id a client can assign: initialize, the tool requests, one
\* shutdown request per stop()
MaxId == 1 + MaxCalls + MaxStops + MaxProjectCalls
Ids == 1..MaxId

VARIABLES
    process,          \* self._process: "None" or "proc"
    child,            \* the child process as the transport sees it
    request_id,       \* self._request_id
    pending_requests, \* keys of self._pending_requests
    future,           \* the asyncio.Future created for each request id, while
                      \* the table or an awaiting coroutine refers to it
    initialized,      \* self._initialized
    reader_task,      \* self._reader_task
    lock,             \* holder of self._lock, or NoProc
    waiters,          \* FIFO of coroutines waiting for self._lock
    stdin,            \* frames written to the child's stdin, in order
    pc,               \* position of each coroutine in _send_request /
                      \* _send_notification / _write_message
    op,               \* the message the coroutine is sending
    cur,              \* request_id local of the coroutine's _send_request
    outcome,          \* what the last send returned or raised
    phase,            \* position of LC in start() / stop()
    running,          \* the coroutine that holds the event loop
    ncalls,           \* tool requests issued so far
    nstops,           \* stop() calls so far
    issued,           \* history: the ids _next_id returned, in order
    resolutions,      \* history: times each future was given an outcome
    expired,          \* history: ids of the requests whose wait timed out
    late,             \* history: ids of the responses read after their
                      \* request had timed out
    lsp_client,       \* the global _lsp_client of server.py: "None" or the
                      \* client this model follows
    project_tool,     \* the tool LC runs: start_project, stop_project, or
                      \* "none" (idle, or stop() called on the client itself)
    project_results,  \* history: what start_project / stop_project returned
    nstarts,          \* start_project calls so far
    stop_entry,       \* history: the session when stop() was last called
    replaced,         \* history: the phase of the old session when
                      \* start_project made this client
    stdout,           \* frames the child has written and the reader has not
                      \* read yet, in order
    message,          \* the frame the last turn of _read_responses read
    diagnostics,      \* self._diagnostics
    dispatched,       \* history: the publishDiagnostics notifications
                      \* _handle_server_message has handled, in order
    emitted,          \* history: the frames the child has written, in order
    prepare_result,   \* local `prepare_result` of each rename_symbol call
    \* start_project and stop_project called concurrently (server.py)
    global_client,    \* the global _lsp_client: 0 (None) or a client
    clients,          \* the TyLspClient objects made so far
    project_calls,    \* the calls of the two tools: tool, position, the
                      \* client the call works on, what it returned
    \* _write_message and _read_message, byte by byte
    out_message,      \* the message handed to _write_message
    wire,             \* the bytes written and not yet read
    content_length,   \* local `content_length` of _read_message
    decoded,          \* what _read_message returned or raised
    fpc,              \* position in _write_message / _read_message
    \* _apply_edits_to_file (server.py)
    file_text,        \* the characters stored in the file
    edits,            \* the list of TextEdits handed to the function
    content,          \* local `content`
    sorted_edits,     \* the part of `sorted_edits` not yet applied
    epc,              \* position in _apply_edits_to_file
    \* the tools that apply a WorkspaceEdit (server.py)
    fs,               \* the files of the project: path -> stored text
    fs0,              \* history: the files when the tool was called
    tool,             \* the tool that runs and its `apply` argument
    edit_data,        \* history: the WorkspaceEdit as the server sent it
    workspace_edit,   \* the WorkspaceEdit the tool got from the client
    all_edits,        \* local `all_edits`: (uri, edits) in iteration order
    todo,             \* the items of all_edits the loop has yet to visit
    applied_files,    \* local `applied_files`
    written,          \* history: the paths write_text was called on
    tool_result,      \* what the tool returned
    apc               \* position in the tool

pvars == <<lsp_client, project_tool, project_results, nstarts, stop_entry,
           replaced>>

rvars == <<stdout, message, diagnostics, dispatched, emitted>>

tvars == <<prepare_result, global_client, clients, project_calls>>

fvars == <<out_message, wire, content_length, decoded, fpc>>

cvars == <<process, child, request_id, pending_requests, future, initialized,
           reader_task, lock, waiters, stdin, pc,
           op, cur, outcome, phase, running, ncalls, nstops, issued,
           resolutions, expired, late>>

svars == <<cvars, pvars, rvars, fvars, tvars>>

evars == <<file_text, edits, content, sorted_edits, epc>>

avars == <<fs, fs0, tool, edit_data, workspace_edit, all_edits, todo,
           applied_files, written, tool_result, apc>>

vars == <<svars, evars, avars, pvars, rvars, fvars, tvars>>

(***************************************************************************)
(* Values.                                                                 *)
(***************************************************************************)
NoFuture == [st |-> "none", id |-> 0]
PendingFuture == [st |-> "pending", id |-> 0]
CancelledFuture == [st |-> "cancelled", id |-> 0]

NoOutcome == [kind |-> "none", req |-> 0, id |-> 0]
NoOp == [type |-> "none", method |-> "none"]

Request(method) == [type |-> "request", method |-> method]
Notification(method) == [type |-> "notification", method |-> method]

\* an exception raised to the caller of a send
Raised(kind, req) == [kind |-> kind, req |-> req, id |-> 0]

\* frames the child can write: a response (id, no method) carrying a result
\* or an error payload, a notification, a frame with Content-Length 0, bytes
\* that do not decode, and the end of the stream
ResponseFrame(i, k) == [type |-> "response", id |-> i, kind |-> k]
OtherFrame(t) == [type |-> t, id |-> 0, kind |-> "none"]
EofFrame == OtherFrame("eof")

Min(S) == CHOOSE x \in S : \A y \in S : x <= y

\* what a project tool returned
Result(tool_name, text) == [tool |-> tool_name, text |-> text]

NoStopEntry == [phase |-> "none", frames |-> 0]

\* the documents the server publishes diagnostics for, and the lists of
\* diagnostics a notification can carry: well-formed elements d1 and d2,
\* and one that Diagnostic.from_dict cannot read
Uris == {"u1", "u2"}
DiagnosticLists == {<<>>, <<"d1">>, <<"d2">>, <<"d1", "bad">>}

\* an element of "diagnostics" without its "range" or its "message"
LacksField(d) == d = "bad"

\* an inbound frame: a JSON object ("message") with its "id" (0: no such
\* key), its "method" ("none": no such key), whether it has an "error" key,
\* and the "uri" and "diagnostics" of its params; or a frame that
\* _read_message does not turn into a message
Message(id, method, kind, uri, diags) ==
    [type |-> "message", id |-> id, method |-> method, kind |-> kind,
     uri |-> uri, diagnostics |-> diags]
Undecoded(type) ==
    [type |-> type, id |-> 0, method |-> "none", kind |-> "result",
     uri |-> "u1", diagnostics |-> <<>>]
NoMessage == Undecoded("none")

\* an entry of self._diagnostics; a missing key is NoEntry
NoEntry == [present |-> FALSE, list |-> <<>>]
Cached(diags) == [present |-> TRUE, list |-> diags]

\* self._diagnostics = {} and an empty pipe
ReaderIdle ==
    /\ stdout = <<>>
    /\ message = NoMessage
    /\ diagnostics = [u \in Uris |-> NoEntry]
    /\ dispatched = <<>>
    /\ emitted = <<>>

\* phases in which no start() or stop() is in progress
AtRest == {"started", "start_failed", "spawn_failed", "stopped", "stop_raised"}

(***************************************************************************)
(* TyLspClient.__init__                                                    *)
(***************************************************************************)
SessionInit ==
    /\ process = "None"
    /\ child = "none"
    /\ request_id = 0
    /\ pending_requests = {}
    /\ future = [i \in Ids |-> NoFuture]
    /\ initialized = FALSE
    /\ reader_task = "None"
    /\ lock = NoProc
    /\ waiters = <<>>
    /\ stdin = <<>>
    /\ pc = [p \in Procs |-> "idle"]
    /\ op = [p \in Procs |-> NoOp]
    /\ cur = [p \in Procs |-> 0]
    /\ outcome = [p \in Procs |-> NoOutcome]
    /\ phase = "unstarted"
    /\ running = NoProc
    /\ ncalls = 0
    /\ nstops = 0
    /\ issued = <<>>
    /\ resolutions = [i \in Ids |-> 0]
    /\ expired = {}
    /\ late = {}
    /\ lsp_client = "None"
    /\ project_tool = "none"
    /\ project_results = <<>>
    /\ nstarts = 0
    /\ stop_entry = NoStopEntry
    /\ replaced = "none"
    /\ ReaderIdle

(***************************************************************************)
(* _next_id, _send_request, _send_notification, _write_message             *)
(***************************************************************************)
\* a faulty _next_id, for C3: the id is taken from the size of the table, so
\* an id comes back once its request has left the table
NextIdFromTable == Cardinality(pending_requests) + 1

\* _next_id: self._request_id += 1; return self._request_id
NextId == request_id + 1

\* a faulty _send_request, for C13: the entry is not in the table when
\* _write_message is called
TableInsertLeftOut == pending_requests

\* self._pending_requests[request_id] = future
TableAfterInsert == pending_requests \cup {NextId}

\* a faulty guard, for C35: it never finds the process missing
GuardLeftOut == FALSE

\* `if not self._process`: the guard of _send_request and of
\* _send_notification
NotStarted == process = "None"

\* _send_request up to the call of _write_message: the guard, the id, the
\* future and its insertion into the table
SendRequestBegin(p) ==
    /\ running = p
    /\ pc[p] = "req_start"
    /\ IF NotStarted
       THEN /\ outcome' = [outcome EXCEPT ![p] = Raised("not_started", 0)]
            /\ pc' = [pc EXCEPT ![p] = "ret"]
            /\ UNCHANGED <<request_id, cur, future, pending_requests,
                           issued>>
       ELSE /\ request_id' = NextId
            /\ cur' = [cur EXCEPT ![p] = NextId]
            /\ future' = [future EXCEPT ![NextId] = PendingFuture]
            /\ pending_requests' = TableAfterInsert
            /\ issued' = Append(issued, NextId)
            /\ pc' = [pc EXCEPT ![p] = "write"]
            /\ UNCHANGED outcome
    /\ UNCHANGED <<process, child, initialized, reader_task, lock, waiters,
                   stdin, op, phase, running, ncalls, nstops, resolutions,
                   expired, late, evars, avars, pvars, rvars, fvars, tvars>>

\* _send_notification up to the call of _write_message: the guard
SendNotificationBegin(p) ==
    /\ running = p
    /\ pc[p] = "notif_start"
    /\ IF NotStarted
       THEN /\ outcome' = [outcome EXCEPT ![p] = Raised("not_started", 0)]
            /\ pc' = [pc EXCEPT ![p] = "ret"]
            /\ UNCHANGED cur
       ELSE /\ pc' = [pc EXCEPT ![p] = "write"]
            /\ cur' = [cur EXCEPT ![p] = 0]
            /\ UNCHANGED outcome
    /\ UNCHANGED <<process, child, request_id, pending_requests, future,
                   initialized, reader_task, lock, waiters, stdin, op,
                   phase, running, ncalls, nstops, issued, resolutions,
                   expired, late, evars, avars, pvars, rvars, fvars, tvars>>

\* a faulty lock, for C26: the lock goes to the waiter that came last
LastWaiter == waiters[Len(waiters)]

\* asyncio.Lock keeps its waiters in the order of their acquire() calls
FirstWaiter == Head(waiters)

\* asyncio.Lock.release: the lock goes to the first waiter, if any
LockAfterRelease == IF waiters = <<>> THEN NoProc ELSE FirstWaiter
WaitersAfterRelease ==
    IF waiters = <<>> THEN <<>>
    ELSE SelectSeq(waiters, LAMBDA w : w # FirstWaiter)

\* the frame _send_request / _send_notification hands to _write_message
FrameOf(p) == [method |-> op[p].method, id |-> cur[p]]

\* _write_message returned: _send_request goes on to wait for its future,
\* _send_notification returns
PcAfterWrite(p) == IF op[p].type = "request" THEN "await" ELSE "ret"
RunningAfterWrite(p) == IF op[p].type = "request" THEN NoProc ELSE p
OutcomeAfterWrite(p) ==
    IF op[p].type = "request" THEN outcome[p]
    ELSE [kind |-> "sent", req |-> 0, id |-> 0]

\* a faulty lock, for C12: it is never found taken
NeverLocked == FALSE

\* asyncio.Lock.locked(): `async with self._lock` waits while it holds
Locked == lock # NoProc

\* _write_message: the guard and `async with self._lock`
WriteMessage(p) ==
    /\ running = p
    /\ pc[p] = "write"
    /\ IF process = "None"
       THEN /\ pc' = [pc EXCEPT ![p] = PcAfterWrite(p)]
            /\ running' = RunningAfterWrite(p)
            /\ outcome' = [outcome EXCEPT ![p] = OutcomeAfterWrite(p)]
            /\ UNCHANGED <<lock, waiters>>
       ELSE IF ~Locked
       THEN /\ lock' = p
            /\ pc' = [pc EXCEPT ![p] = "locked"]
            /\ UNCHANGED <<waiters, running, outcome>>
       ELSE /\ waiters' = Append(waiters, p)
            /\ pc' = [pc EXCEPT ![p] = "lockwait"]
            /\ running' = NoProc
            /\ UNCHANGED <<lock, outcome>>
    /\ UNCHANGED <<process, child, request_id, pending_requests, future,
                   initialized, reader_task, stdin, op, cur, phase, ncalls,
                   nstops, issued, resolutions, expired, late, evars,
                   avars, pvars, rvars, fvars, tvars>>

\* the lock was released to this waiter and the loop resumes it
LockAcquired(p) ==
    /\ running = NoProc
    /\ pc[p] = "lockwait"
    /\ lock = p
    /\ pc' = [pc EXCEPT ![p] = "locked"]
    /\ running' = p
    /\ UNCHANGED <<process, child, request_id, pending_requests, future,
                   initialized, reader_task, lock, waiters, stdin, op, cur,
                   outcome, phase, ncalls, nstops, issued, resolutions,
                   expired, late, evars, avars, pvars, rvars, fvars, tvars>>

\* self._process.stdin.write(header + body); await self._process.stdin.drain()
\* under the lock.  self._process is None once a stop() has completed while
\* this coroutine waited for the lock (AttributeError); a child that has exited
\* makes drain raise ConnectionResetError.  The exception leaves
\* _send_request / _send_notification as it is: the pending entry stays.
\* drain() returns at once unless the child has stopped reading and the
\* write buffer is over its high-water mark (full): then the coroutine is
\* suspended in drain() and keeps the lock.  The frames of the handshake are
\* a few hundred bytes, and so is a prepareRename; the frames of the tools
\* carry whole documents and a rename carries a new name of any length, so
\* the buffer can be full (CanFill) once one of these has been or is written.
PrepareRename == "textDocument/prepareRename"
Rename == "textDocument/rename"
Unbounded == {"tool", Rename}

CanFill(p) ==
    \/ op[p].method \in Unbounded
    \/ \E k \in 1..Len(stdin) : stdin[k].method \in Unbounded

WriteFrame(p) ==
    /\ running = p
    /\ pc[p] = "locked"
    /\ IF process = "None" \/ child # "alive"
       THEN /\ outcome' = [outcome EXCEPT ![p] = Raised("write_error", cur[p])]
            /\ pc' = [pc EXCEPT ![p] = "ret"]
            /\ lock' = LockAfterRelease
            /\ waiters' = WaitersAfterRelease
            /\ UNCHANGED <<stdin, running>>
       ELSE /\ stdin' = Append(stdin, FrameOf(p))
            /\ \E full \in {FALSE, CanFill(p)} :
                  IF full
                  THEN /\ pc' = [pc EXCEPT ![p] = "draining"]
                       /\ running' = NoProc
                       /\ UNCHANGED <<lock, waiters, outcome>>
                  ELSE /\ pc' = [pc EXCEPT ![p] = PcAfterWrite(p)]
                       /\ running' = RunningAfterWrite(p)
                       /\ outcome' =
                              [outcome EXCEPT ![p] = OutcomeAfterWrite(p)]
                       /\ lock' = LockAfterRelease
                       /\ waiters' = WaitersAfterRelease
    /\ UNCHANGED <<process, child, request_id, pending_requests, future,
                   initialized, reader_task, op, cur, phase, ncalls, nstops,
                   issued, resolutions, expired, late, evars, avars, pvars,
                   rvars, fvars, tvars>>

\* drain() returns when the child reads its stdin again, or raises when the
\* child has exited; whether either happens is up to the child, and until
\* then the coroutine stays suspended and holds the lock
DrainResume(p) ==
    /\ running = NoProc
    /\ pc[p] = "draining"
    /\ lock' = LockAfterRelease
    /\ waiters' = WaitersAfterRelease
    /\ IF child = "exited"
       THEN /\ outcome' = [outcome EXCEPT ![p] = Raised("write_error", cur[p])]
            /\ pc' = [pc EXCEPT ![p] = "ret"]
            /\ running' = p
       ELSE /\ pc' = [pc EXCEPT ![p] = PcAfterWrite(p)]
            /\ running' = RunningAfterWrite(p)
            /\ outcome' = [outcome EXCEPT ![p] = OutcomeAfterWrite(p)]
    /\ UNCHANGED <<process, child, request_id, pending_requests, future,
                   initialized, reader_task, stdin, op, cur, phase, ncalls,
                   nstops, issued, resolutions, expired, late, evars,
                   avars, pvars, rvars, fvars, tvars>>

\* result = await asyncio.wait_for(future, timeout=30.0); return result
\* (or the exception set on the future is raised)
AwaitDone(p) ==
    /\ running = NoProc
    /\ pc[p] = "await"
    /\ future[cur[p]].st \in {"result", "error"}
    /\ outcome' = [outcome EXCEPT ![p] =
                      [kind |-> future[cur[p]].st, req |-> cur[p],
                       id |-> future[cur[p]].id]]
    /\ future' = [future EXCEPT ![cur[p]] = NoFuture]
    /\ pc' = [pc EXCEPT ![p] = "ret"]
    /\ running' = p
    /\ UNCHANGED <<process, child, request_id, pending_requests,
                   initialized, reader_task, lock, waiters, stdin, op, cur,
                   phase, ncalls, nstops, issued, resolutions, expired,
                   late, evars, avars, pvars, rvars, fvars, tvars>>

\* a faulty timeout, for C22: every pending future is cancelled
AllFuturesCancelled(p) ==
    [i \in Ids |->
        IF future[i].st = "pending" THEN CancelledFuture ELSE future[i]]

\* wait_for cancels the future it was waiting for
FuturesAfterTimeout(p) == [future EXCEPT ![cur[p]] = CancelledFuture]

\* the 30 s of wait_for pass with the future still pending: wait_for cancels
\* the future; the coroutine is resumed by a later slice of the loop
Timeout(p) ==
    /\ running = NoProc
    /\ pc[p] = "await"
    /\ future[cur[p]].st = "pending"
    /\ future' = FuturesAfterTimeout(p)
    /\ pc' = [pc EXCEPT ![p] = "timedout"]
    /\ UNCHANGED <<process, child, request_id, pending_requests,
                   initialized, reader_task, lock, waiters, stdin, op, cur,
                   outcome, phase, running, ncalls, nstops, issued,
                   resolutions, expired, late, evars, avars, pvars,
                   rvars, fvars, tvars>>

\* a faulty timeout handler, for C28: it empties the table
TableClearedOnTimeout(p) == {}

\* a faulty timeout handler, for C2: the entry is left in the table
TableAfterTimeoutKept(p) == pending_requests

\* except asyncio.TimeoutError: self._pending_requests.pop(request_id, None)
TableAfterTimeout(p) == pending_requests \ {cur[p]}

\* ... raise TimeoutError(f"Request {method} timed out")
TimeoutResume(p) ==
    /\ running = NoProc
    /\ pc[p] = "timedout"
    /\ pending_requests' = TableAfterTimeout(p)
    /\ future' = [future EXCEPT ![cur[p]] =
                     IF cur[p] \in TableAfterTimeout(p) THEN @ ELSE NoFuture]
    /\ outcome' = [outcome EXCEPT ![p] = Raised("timeout", cur[p])]
    /\ expired' = expired \cup {cur[p]}
    /\ pc' = [pc EXCEPT ![p] = "ret"]
    /\ running' = p
    /\ UNCHANGED <<process, child, request_id, initialized, reader_task,
                   lock, waiters, stdin, op, cur, phase, ncalls, nstops,
                   issued, resolutions, late, evars, avars, pvars,
                   rvars, fvars, tvars>>

(***************************************************************************)
(* _read_responses, _read_message, _handle_message                         *)
(***************************************************************************)
\* a faulty dispatch, for C1: a response resolves the oldest entry of the
\* table, whatever id it carries
PoppedOldest(f) ==
    IF pending_requests = {} THEN 0 ELSE Min(pending_requests)

\* future = self._pending_requests.pop(request_id, None): the entry the
\* response resolves, 0 for None
PoppedEntry(f) == IF f.id \in pending_requests THEN f.id ELSE 0

\* if future and not future.done(): set_exception(...) / set_result(...)
ResolvesFuture(f) ==
    PoppedEntry(f) # 0 /\ future[PoppedEntry(f)].st = "pending"

\* some coroutine is inside _send_request for request i and holds its
\* future, which it awaits or is going to await once its frame is written; a
\* future that is neither in the table nor held by a call is garbage
Awaited(i) ==
    \E p \in Procs :
       /\ op[p].type = "request"
       /\ pc[p] \in {"write", "lockwait", "locked", "draining", "await",
                     "timedout"}
       /\ cur[p] = i

\* a faulty dispatch, for C21: an error response empties the table
TableClearedOnError(f) ==
    IF f.kind = "error" THEN {} ELSE pending_requests \ {PoppedEntry(f)}

\* self._pending_requests.pop(request_id, None): the table afterwards
TableAfterResponse(f) == pending_requests \ {PoppedEntry(f)}

\* _handle_message for a frame with an id and no method
HandleResponse(f) ==
    /\ pending_requests' = TableAfterResponse(f)
    /\ late' = IF PoppedEntry(f) = 0 /\ f.id \in expired
               THEN late \cup {f.id} ELSE late
    /\ IF ResolvesFuture(f)
       THEN /\ future' = [future EXCEPT ![PoppedEntry(f)] =
                             IF Awaited(PoppedEntry(f))
                             THEN [st |-> f.kind, id |-> f.id]
                             ELSE NoFuture]
            /\ resolutions' = [resolutions EXCEPT ![PoppedEntry(f)] = @ + 1]
       ELSE /\ future' = [i \in Ids |->
                             IF i = PoppedEntry(f) /\ ~Awaited(i)
                             THEN NoFuture ELSE future[i]]
            /\ UNCHANGED resolutions

\* _read_message returns None (end of stream, Content-Length 0) or raises
\* (bytes that do not decode): the loop of _read_responses breaks
EndsReader(f) == f.type \in {"eof", "zero", "garbage"}

\* a response carries the id of some request the session has issued
ResponseIds == 1..request_id

\* what the reader can find on the child's stdout: any frame while the child
\* runs or has left frames behind, the end of the stream once it has exited
Readable ==
    {ResponseFrame(i, k) : i \in ResponseIds, k \in {"result", "error"}}
    \cup {OtherFrame(t) : t \in {"notification", "zero", "garbage"}}
    \cup (IF child = "exited" THEN {EofFrame} ELSE {})

\* one turn of the loop of _read_responses: read a frame, dispatch it
ReaderStep ==
    /\ running = NoProc
    /\ reader_task = "running"
    /\ \E f \in Readable :
          IF f.type = "response"
          THEN /\ HandleResponse(f)
               /\ UNCHANGED reader_task
          ELSE /\ reader_task' = IF EndsReader(f) THEN "done" ELSE reader_task
               /\ UNCHANGED <<pending_requests, future, resolutions,
                              late>>
    /\ UNCHANGED <<process, child, request_id, initialized, lock, waiters,
                   stdin, pc, op, cur, outcome, phase, running, ncalls,
                   nstops, issued, expired, evars, avars, pvars,
                   rvars, fvars, tvars>>

\* the reader task, cancelled by stop(), gets CancelledError at its await
\* and leaves the loop
ReaderCancelled ==
    /\ running = NoProc
    /\ reader_task = "cancelling"
    /\ reader_task' = "done"
    /\ UNCHANGED <<process, child, request_id, pending_requests, future,
                   initialized, lock, waiters, stdin, pc, op, cur, outcome,
                   phase, running, ncalls, nstops, issued, resolutions,
                   expired, late, evars, avars, pvars, rvars, fvars, tvars>>

(***************************************************************************)
(* The child process (ty server): what it writes is not constrained        *)
(***************************************************************************)
\* the child exits (by itself, or on the signal stop() sent): its stdout
\* reaches end of stream
ChildExit ==
    /\ running = NoProc
    /\ child = "alive"
    /\ child' = "exited"
    /\ UNCHANGED <<process, request_id, pending_requests, future,
                   initialized, reader_task, lock, waiters, stdin, pc, op,
                   cur, outcome, phase, running, ncalls, nstops, issued,
                   resolutions, expired, late, evars, avars, pvars,
                   rvars, fvars, tvars>>

(***************************************************************************)
(* The reader, frame by frame: _read_responses, _handle_message,           *)
(* _handle_server_message.  The child writes frames into the pipe; one     *)
(* turn of the loop reads the first of them and handles it.                *)
(***************************************************************************)
PublishDiagnostics == "textDocument/publishDiagnostics"
LogMessage == "window/logMessage"

\* the methods a frame of the child can carry: the two the client knows and
\* one it does not
ServerMethods == {PublishDiagnostics, LogMessage, "other"}

\* the ids a frame with a method can carry: none, or the id of the first
\* request of a tool (the first request after initialize)
MethodIds == {0, 2}

\* the frames the child can write
ServerFrames ==
    {Message(i, "none", k, "u1", <<>>) :
         i \in 0..request_id, k \in {"result", "error"}}
    \cup {Message(i, PublishDiagnostics, "result", u, d) :
              i \in MethodIds, u \in Uris, d \in DiagnosticLists}
    \cup {Message(i, m, "result", "u1", <<>>) :
              i \in MethodIds, m \in {LogMessage, "other"}}
    \cup {Undecoded("zero"), Undecoded("garbage")}

\* the child writes one frame to its stdout
ChildWrites ==
    /\ child = "alive"
    /\ Len(emitted) < MaxFrames
    /\ \E f \in ServerFrames :
          /\ stdout' = Append(stdout, f)
          /\ emitted' = Append(emitted, f)
    /\ UNCHANGED <<process, child, request_id, pending_requests, future,
                   initialized, reader_task, lock, waiters, stdin, pc, op,
                   cur, outcome, phase, running, ncalls, nstops, issued,
                   resolutions, expired, late, message, diagnostics,
                   dispatched, evars, avars, pvars, fvars, tvars>>

\* a faulty test, for C20: every frame with an id is taken for a response
HasId(f) == f.id # 0

\* "id" in message and "method" not in message
IsResponse(f) == f.id # 0 /\ f.method = "none"

\* a faulty handler, for C18: the new diagnostics are appended to the cached
\* ones
MergedWithCached(f) == diagnostics[f.uri].list \o f.diagnostics

\* diagnostics = [Diagnostic.from_dict(d) for d in params["diagnostics"]]:
\* one Diagnostic for each element, in order; an element of the model stands
\* for the fields from_dict keeps (range, message, severity, source, code)
CachedAfterPublish(f) == [k \in 1..Len(f.diagnostics) |-> f.diagnostics[k]]

\* a faulty from_dict, for C36: it raises for no element
FromDictTolerant(diags) == FALSE

\* Diagnostic.from_dict(d) raises KeyError for data["range"] or
\* data["message"]: the list comprehension raises at the first such element
FromDictRaises(diags) == \E k \in 1..Len(diags) : LacksField(diags[k])

\* _handle_message raises: the frame goes to _handle_server_message, which
\* raises before it assigns self._diagnostics[uri]
HandlerRaises(f) ==
    /\ f.type = "message"
    /\ ~IsResponse(f)
    /\ f.method = PublishDiagnostics
    /\ FromDictRaises(f.diagnostics)

\* _handle_server_message: publishDiagnostics assigns the entry of the URI;
\* logMessage writes to the log; any other method does nothing
HandleServerMessage(f) ==
    IF f.method = PublishDiagnostics
    THEN /\ diagnostics' =
                [diagnostics EXCEPT ![f.uri] = Cached(CachedAfterPublish(f))]
         /\ dispatched' = Append(dispatched, f)
    ELSE UNCHANGED <<diagnostics, dispatched>>

\* _handle_message: a response, else a frame with a method, else nothing
HandleMessage(f) ==
    IF IsResponse(f)
    THEN /\ HandleResponse(f)
         /\ UNCHANGED <<diagnostics, dispatched>>
    ELSE /\ IF f.method # "none"
            THEN HandleServerMessage(f)
            ELSE UNCHANGED <<diagnostics, dispatched>>
         /\ UNCHANGED <<pending_requests, future, resolutions, late>>

\* one turn of the loop of _read_responses on the first frame in the pipe:
\* _read_message, then break if it returned None or raised, else
\* _handle_message, and break if that raised (except Exception)
ReadAndHandle ==
    /\ running = NoProc
    /\ reader_task = "running"
    /\ stdout # <<>>
    /\ stdout' = Tail(stdout)
    /\ message' = Head(stdout)
    /\ IF EndsReader(Head(stdout)) \/ HandlerRaises(Head(stdout))
       THEN /\ reader_task' = "done"
            /\ UNCHANGED <<pending_requests, future, resolutions, late,
                           diagnostics, dispatched>>
       ELSE /\ HandleMessage(Head(stdout))
            /\ UNCHANGED reader_task
    /\ UNCHANGED <<process, child, request_id, initialized, lock, waiters,
                   stdin, pc, op, cur, outcome, phase, running, ncalls,
                   nstops, issued, expired, emitted, evars, avars, pvars,
                   fvars, tvars>>

\* the session after start() and the first request of a tool: the request
\* (id 2) is written and its caller waits for the response
OneRequestOutstanding ==
    /\ process = "proc"
    /\ child = "alive"
    /\ request_id = 2
    /\ pending_requests = {2}
    /\ future = [i \in Ids |-> IF i = 2 THEN PendingFuture ELSE NoFuture]
    /\ initialized = TRUE
    /\ reader_task = "running"
    /\ lock = NoProc
    /\ waiters = <<>>
    /\ stdin = <<[id |-> 1, method |-> "initialize"],
                 [id |-> 0, method |-> "initialized"],
                 [id |-> 2, method |-> "tool"]>>
    /\ pc = [p \in Procs |-> IF p = 1 THEN "await" ELSE "idle"]
    /\ op = [p \in Procs |-> IF p = 1 THEN Request("tool") ELSE NoOp]
    /\ cur = [p \in Procs |-> IF p = 1 THEN 2 ELSE 0]
    /\ outcome = [p \in Procs |-> NoOutcome]
    /\ phase = "started"
    /\ running = NoProc
    /\ ncalls = 1
    /\ nstops = 0
    /\ issued = <<1, 2>>
    /\ resolutions = [i \in Ids |-> IF i = 1 THEN 1 ELSE 0]
    /\ expired = {}
    /\ late = {}
    /\ lsp_client = "client"
    /\ project_tool = "none"
    /\ project_results =
           <<Result("start_project", "OK: Project initialized")>>
    /\ nstarts = 1
    /\ stop_entry = NoStopEntry
    /\ replaced = "none"

(***************************************************************************)
(* Tool calls (server.py): _get_client(), then requests of the client API  *)
(***************************************************************************)
\* a faulty _get_client, for C14: is_initialized is not asked
ClientExists == lsp_client # "None"

\* _get_client: not (_lsp_client is None or not _lsp_client.is_initialized)
ClientReady == lsp_client # "None" /\ initialized

\* client = _get_client(): raises NOT_INITIALIZED unless is_initialized;
\* otherwise the tool calls a client method that sends a request.  Tool calls
\* are anonymous coroutines: a new one takes the first free slot of Callers.
ToolCall(c) ==
    /\ running = NoProc
    /\ pc[c] = "idle"
    /\ \A d \in Callers : d < c => pc[d] # "idle"
    /\ ncalls < MaxCalls
    /\ IF ClientReady
       THEN /\ pc' = [pc EXCEPT ![c] = "req_start"]
            /\ op' = [op EXCEPT ![c] = Request("tool")]
            /\ running' = c
            /\ ncalls' = ncalls + 1
            /\ UNCHANGED outcome
       ELSE /\ outcome' = [outcome EXCEPT ![c] = Raised("NOT_INITIALIZED", 0)]
            /\ pc' = [pc EXCEPT ![c] = "ret"]
            /\ running' = c
            /\ UNCHANGED <<op, ncalls>>
    /\ UNCHANGED <<process, child, request_id, pending_requests, future,
                   initialized, reader_task, lock, waiters, stdin, cur,
                   phase, nstops, issued, resolutions, expired, late,
                   evars, avars, pvars, rvars, fvars, tvars>>

\* a tool that got a result sends a second request without asking
\* _get_client() again (rename_symbol: prepareRename, then rename)
ToolContinue(c) ==
    /\ running = c
    /\ pc[c] = "ret"
    /\ outcome[c].kind = "result"
    /\ ncalls < MaxCalls
    /\ pc' = [pc EXCEPT ![c] = "req_start"]
    /\ ncalls' = ncalls + 1
    /\ UNCHANGED <<process, child, request_id, pending_requests, future,
                   initialized, reader_task, lock, waiters, stdin, op, cur,
                   outcome, phase, running, nstops, issued, resolutions,
                   expired, late, evars, avars, pvars, rvars, fvars, tvars>>

\* the tool returns its text (a result, or "ERROR: ..." for an exception)
ToolReturn(c) ==
    /\ running = c
    /\ pc[c] = "ret"
    /\ pc' = [pc EXCEPT ![c] = "idle"]
    /\ op' = [op EXCEPT ![c] = NoOp]
    /\ cur' = [cur EXCEPT ![c] = 0]
    /\ outcome' = [outcome EXCEPT ![c] = NoOutcome]
    /\ running' = NoProc
    /\ UNCHANGED <<process, child, request_id, pending_requests, future,
                   initialized, reader_task, lock, waiters, stdin, phase,
                   ncalls, nstops, issued, resolutions, expired, late,
                   evars, avars, pvars, rvars, fvars, tvars>>

(***************************************************************************)
(* rename_symbol (lsp_client.py), called by safe_rename after              *)
(* _get_client(): prepareRename, then rename.  A call takes a free slot of *)
(* Callers and keeps it when it has returned.                              *)
(***************************************************************************)
\* no rename_symbol has been called
RenameIdle == prepare_result = [c \in Callers |-> "none"]

\* what rename_symbol returned: None, or a WorkspaceEdit
RenameReturned(value) == [kind |-> value, req |-> 0, id |-> 0]

\* the session after start(), before any tool has sent a request
SessionStarted ==
    /\ process = "proc"
    /\ child = "alive"
    /\ request_id = 1
    /\ pending_requests = {}
    /\ future = [i \in Ids |-> NoFuture]
    /\ initialized = TRUE
    /\ reader_task = "running"
    /\ lock = NoProc
    /\ waiters = <<>>
    /\ stdin = <<[id |-> 1, method |-> "initialize"],
                 [id |-> 0, method |-> "initialized"]>>
    /\ pc = [p \in Procs |-> "idle"]
    /\ op = [p \in Procs |-> NoOp]
    /\ cur = [p \in Procs |-> 0]
    /\ outcome = [p \in Procs |-> NoOutcome]
    /\ phase = "started"
    /\ running = NoProc
    /\ ncalls = 0
    /\ nstops = 0
    /\ issued = <<1>>
    /\ resolutions = [i \in Ids |-> IF i = 1 THEN 1 ELSE 0]
    /\ expired = {}
    /\ late = {}
    /\ lsp_client = "client"
    /\ project_tool = "none"
    /\ project_results =
           <<Result("start_project", "OK: Project initialized")>>
    /\ nstarts = 1
    /\ stop_entry = NoStopEntry
    /\ replaced = "none"

\* safe_rename: client = _get_client(), then rename_symbol up to its first
\* _send_request
RenameCall(c) ==
    /\ running = NoProc
    /\ pc[c] = "idle"
    /\ \A d \in Callers : d < c => pc[d] # "idle"
    /\ IF ClientReady
       THEN /\ pc' = [pc EXCEPT ![c] = "req_start"]
            /\ op' = [op EXCEPT ![c] = Request(PrepareRename)]
            /\ running' = c
            /\ ncalls' = ncalls + 1
            /\ UNCHANGED outcome
       ELSE /\ outcome' = [outcome EXCEPT ![c] = Raised("NOT_INITIALIZED", 0)]
            /\ pc' = [pc EXCEPT ![c] = "returned"]
            /\ UNCHANGED <<op, running, ncalls>>
    /\ UNCHANGED <<process, child, request_id, pending_requests, future,
                   initialized, reader_task, lock, waiters, stdin, cur,
                   phase, nstops, issued, resolutions, expired, late,
                   evars, avars, pvars, rvars, fvars, tvars>>

\* a faulty test, for C25: no result counts as empty
NeverFalsy(value) == FALSE

\* `not prepare_result` / `not result`: None, an empty dict or list
IsFalsy(value) == value = "empty"

\* the await of the prepareRename request is over.  A result is assigned to
\* prepare_result: the server decides whether it is empty; if it is,
\* rename_symbol returns None, else it goes on to the rename request.  An
\* exception of _send_request leaves rename_symbol.
RenamePrepared(c) ==
    /\ running = c
    /\ pc[c] = "ret"
    /\ op[c].method = PrepareRename
    /\ IF outcome[c].kind = "result"
       THEN \E value \in {"empty", "nonempty"} :
               /\ prepare_result' = [prepare_result EXCEPT ![c] = value]
               /\ IF IsFalsy(value)
                  THEN /\ pc' = [pc EXCEPT ![c] = "returned"]
                       /\ outcome' =
                              [outcome EXCEPT ![c] = RenameReturned("None")]
                       /\ running' = NoProc
                       /\ UNCHANGED <<op, ncalls>>
                  ELSE /\ pc' = [pc EXCEPT ![c] = "req_start"]
                       /\ op' = [op EXCEPT ![c] = Request(Rename)]
                       /\ ncalls' = ncalls + 1
                       /\ UNCHANGED <<outcome, running>>
       ELSE /\ pc' = [pc EXCEPT ![c] = "returned"]
            /\ running' = NoProc
            /\ UNCHANGED <<op, outcome, ncalls, prepare_result>>
    /\ UNCHANGED <<process, child, request_id, pending_requests, future,
                   initialized, reader_task, lock, waiters, stdin, cur,
                   phase, nstops, issued, resolutions, expired, late,
                   evars, avars, pvars, rvars, fvars, global_client,
                   clients, project_calls>>

\* the await of the rename request is over: None for an empty result,
\* WorkspaceEdit.from_dict(result) otherwise, or the exception
RenameDone(c) ==
    /\ running = c
    /\ pc[c] = "ret"
    /\ op[c].method = Rename
    /\ IF outcome[c].kind = "result"
       THEN \E value \in {"empty", "nonempty"} :
               outcome' =
                   [outcome EXCEPT ![c] =
                       RenameReturned(IF IsFalsy(value) THEN "None"
                                      ELSE "WorkspaceEdit")]
       ELSE UNCHANGED outcome
    /\ pc' = [pc EXCEPT ![c] = "returned"]
    /\ running' = NoProc
    /\ UNCHANGED <<process, child, request_id, pending_requests, future,
                   initialized, reader_task, lock, waiters, stdin, op, cur,
                   phase, ncalls, nstops, issued, resolutions, expired,
                   late, evars, avars, pvars, rvars, fvars, tvars>>

(***************************************************************************)
(* start() and _initialize()                                               *)
(***************************************************************************)
\* _lsp_client = TyLspClient(): the fields of a new object, and the call of
\* start() up to `await asyncio.create_subprocess_exec`.  Tool calls that are
\* still inside the old client go on with the old object, whose fields no
\* longer concern this one: their slots are given back.
NewClient(old) ==
    /\ lsp_client' = "client"
    /\ replaced' = old
    /\ process' = "None"
    /\ child' = "none"
    /\ request_id' = 0
    /\ pending_requests' = {}
    /\ future' = [i \in Ids |-> NoFuture]
    /\ initialized' = FALSE
    /\ reader_task' = "None"
    /\ lock' = NoProc
    /\ waiters' = <<>>
    /\ stdin' = <<>>
    /\ pc' = [p \in Procs |-> "idle"]
    /\ op' = [p \in Procs |-> NoOp]
    /\ cur' = [p \in Procs |-> 0]
    /\ outcome' = [p \in Procs |-> NoOutcome]
    /\ issued' = <<>>
    /\ resolutions' = [i \in Ids |-> 0]
    /\ expired' = {}
    /\ late' = {}
    /\ stop_entry' = NoStopEntry
    /\ phase' = "unstarted"
    /\ project_tool' = "start_project"
    /\ nstarts' = nstarts + 1
    /\ running' = NoProc
    /\ stdout' = <<>>
    /\ message' = NoMessage
    /\ diagnostics' = [u \in Uris |-> NoEntry]
    /\ dispatched' = <<>>
    /\ emitted' = <<>>
    /\ UNCHANGED <<ncalls, nstops, project_results, evars,
                   avars, fvars, tvars>>

\* start_project with no active client (`if _lsp_client is not None` fails)
StartProject ==
    /\ running = NoProc
    /\ project_tool = "none"
    /\ pc[LC] = "idle"
    /\ phase \in AtRest \cup {"unstarted"}
    /\ lsp_client = "None"
    /\ NewClient("none")

\* a faulty start_project, for C16: an exception of the old client's stop()
\* leaves the tool
OldStopReturned == phase = "stopped"

\* try: await _lsp_client.stop() / except Exception: pass -- the tool goes
\* on when stop() has returned or raised
OldStopEnded == phase \in {"stopped", "stop_raised"}

\* start_project after the stop() of the old client
StartProjectAfterStop ==
    /\ running = LC
    /\ project_tool = "start_project"
    /\ OldStopEnded
    /\ NewClient(phase)

\* start_project: except Exception as e: _lsp_client = None;
\* return f"ERROR: {e}"
StartProjectFails ==
    /\ lsp_client' = "None"
    /\ project_tool' = "none"
    /\ project_results' =
          Append(project_results, Result("start_project", "ERROR"))
    /\ UNCHANGED <<nstarts, stop_entry, replaced>>

\* create_subprocess_exec fails: start() raises, nothing was changed
StartSpawnFails ==
    /\ running = NoProc
    /\ project_tool = "start_project"
    /\ phase = "unstarted"
    /\ phase' = "spawn_failed"
    /\ StartProjectFails
    /\ UNCHANGED <<process, child, request_id, pending_requests, future,
                   initialized, reader_task, lock, waiters, stdin, pc, op,
                   cur, outcome, running, ncalls, nstops, issued,
                   resolutions, expired, late, evars, avars,
                   rvars, fvars, tvars>>

\* the child is spawned, the reader task created, _initialize() called
Start ==
    /\ running = NoProc
    /\ project_tool = "start_project"
    /\ phase = "unstarted"
    /\ process' = "proc"
    /\ child' = "alive"
    /\ reader_task' = "running"
    /\ phase' = "start_init"
    /\ pc' = [pc EXCEPT ![LC] = "req_start"]
    /\ op' = [op EXCEPT ![LC] = Request("initialize")]
    /\ running' = LC
    /\ UNCHANGED <<request_id, pending_requests, future, initialized, lock,
                   waiters, stdin, cur, outcome, ncalls, nstops, issued,
                   resolutions, expired, late, evars, avars, pvars,
                   rvars, fvars, tvars>>

\* _initialize after `result = await self._send_request("initialize", ...)`:
\* the initialized notification; an exception leaves start()
InitializeAnswered ==
    /\ running = LC
    /\ phase = "start_init"
    /\ pc[LC] = "ret"
    /\ IF outcome[LC].kind = "result"
       THEN /\ phase' = "start_notify"
            /\ pc' = [pc EXCEPT ![LC] = "notif_start"]
            /\ op' = [op EXCEPT ![LC] = Notification("initialized")]
            /\ UNCHANGED running
            /\ UNCHANGED pvars
       ELSE /\ phase' = "start_failed"
            /\ pc' = [pc EXCEPT ![LC] = "idle"]
            /\ op' = [op EXCEPT ![LC] = NoOp]
            /\ running' = NoProc
            /\ StartProjectFails
    /\ outcome' = [outcome EXCEPT ![LC] = NoOutcome]
    /\ UNCHANGED <<process, child, request_id, pending_requests, future,
                   initialized, reader_task, lock, waiters, stdin, cur,
                   ncalls, nstops, issued, resolutions, expired, late,
                   evars, avars, rvars, fvars, tvars>>

\* _initialize after `await self._send_notification("initialized", {})`:
\* self._initialized = True; start_project returns "OK: Project initialized"
InitializedSent ==
    /\ running = LC
    /\ phase = "start_notify"
    /\ pc[LC] = "ret"
    /\ IF outcome[LC].kind = "sent"
       THEN /\ initialized' = TRUE
            /\ phase' = "started"
            /\ project_tool' = "none"
            /\ project_results' =
                  Append(project_results,
                         Result("start_project", "OK: Project initialized"))
            /\ UNCHANGED <<lsp_client, nstarts, stop_entry, replaced>>
       ELSE /\ phase' = "start_failed"
            /\ StartProjectFails
            /\ UNCHANGED initialized
    /\ pc' = [pc EXCEPT ![LC] = "idle"]
    /\ op' = [op EXCEPT ![LC] = NoOp]
    /\ outcome' = [outcome EXCEPT ![LC] = NoOutcome]
    /\ running' = NoProc
    /\ UNCHANGED <<process, child, request_id, pending_requests, future,
                   reader_task, lock, waiters, stdin, cur, ncalls, nstops,
                   issued, resolutions, expired, late, evars, avars,
                   rvars, fvars, tvars>>

(***************************************************************************)
(* stop()                                                                  *)
(***************************************************************************)
\* who calls stop(): stop_project and start_project on the active client,
\* or ("none") another user of the client
StopCallers == {"none", "stop_project", "start_project"}

\* stop() is called: `if self._initialized:` the shutdown request
Stop(tool_name) ==
    /\ running = NoProc
    /\ project_tool = "none"
    /\ phase \in AtRest
    /\ pc[LC] = "idle"
    /\ tool_name # "none" => lsp_client # "None"
    /\ project_tool' = tool_name
    /\ stop_entry' = [phase |-> phase, frames |-> Len(stdin)]
    /\ nstops' = nstops + 1
    /\ running' = LC
    /\ IF initialized
       THEN /\ phase' = "stop_shutdown"
            /\ pc' = [pc EXCEPT ![LC] = "req_start"]
            /\ op' = [op EXCEPT ![LC] = Request("shutdown")]
       ELSE /\ phase' = "stop_reader"
            /\ UNCHANGED <<pc, op>>
    /\ UNCHANGED <<process, child, request_id, pending_requests, future,
                   initialized, reader_task, lock, waiters, stdin, cur,
                   outcome, ncalls, issued, resolutions, expired, late,
                   lsp_client, project_results, nstarts, replaced, evars,
                   avars, rvars, fvars, tvars>>

\* after `await self._send_request("shutdown", None)`: the exit notification;
\* `except Exception` logs a failure and stop() goes on
ShutdownAnswered ==
    /\ running = LC
    /\ phase = "stop_shutdown"
    /\ pc[LC] = "ret"
    /\ IF outcome[LC].kind = "result"
       THEN /\ phase' = "stop_exit"
            /\ pc' = [pc EXCEPT ![LC] = "notif_start"]
            /\ op' = [op EXCEPT ![LC] = Notification("exit")]
       ELSE /\ phase' = "stop_reader"
            /\ pc' = [pc EXCEPT ![LC] = "idle"]
            /\ op' = [op EXCEPT ![LC] = NoOp]
    /\ outcome' = [outcome EXCEPT ![LC] = NoOutcome]
    /\ UNCHANGED <<process, child, request_id, pending_requests, future,
                   initialized, reader_task, lock, waiters, stdin, cur,
                   running, ncalls, nstops, issued, resolutions, expired,
                   late, evars, avars, pvars, rvars, fvars, tvars>>

\* after `await self._send_notification("exit", None)`, sent or raised
ExitSent ==
    /\ running = LC
    /\ phase = "stop_exit"
    /\ pc[LC] = "ret"
    /\ phase' = "stop_reader"
    /\ pc' = [pc EXCEPT ![LC] = "idle"]
    /\ op' = [op EXCEPT ![LC] = NoOp]
    /\ outcome' = [outcome EXCEPT ![LC] = NoOutcome]
    /\ UNCHANGED <<process, child, request_id, pending_requests, future,
                   initialized, reader_task, lock, waiters, stdin, cur,
                   running, ncalls, nstops, issued, resolutions, expired,
                   late, evars, avars, pvars, rvars, fvars, tvars>>

\* if self._reader_task: self._reader_task.cancel(); await self._reader_task
StopCancelReader ==
    /\ running = LC
    /\ phase = "stop_reader"
    /\ IF reader_task = "running"
       THEN /\ reader_task' = "cancelling"
            /\ phase' = "stop_reader_wait"
            /\ running' = NoProc
       ELSE /\ phase' = "stop_term"
            /\ UNCHANGED <<reader_task, running>>
    /\ UNCHANGED <<process, child, request_id, pending_requests, future,
                   initialized, lock, waiters, stdin, pc, op, cur, outcome,
                   ncalls, nstops, issued, resolutions, expired, late,
                   evars, avars, pvars, rvars, fvars, tvars>>

StopReaderAwaited ==
    /\ running = NoProc
    /\ phase = "stop_reader_wait"
    /\ reader_task = "done"
    /\ phase' = "stop_term"
    /\ running' = LC
    /\ UNCHANGED <<process, child, request_id, pending_requests, future,
                   initialized, reader_task, lock, waiters, stdin, pc, op,
                   cur, outcome, ncalls, nstops, issued, resolutions,
                   expired, late, evars, avars, pvars, rvars, fvars, tvars>>

\* stop() returns or raises: a tool that called it goes on at once
CallerOfStop == IF project_tool = "none" THEN NoProc ELSE LC

\* the last statements of stop(): self._initialized = False;
\* self._process = None
StopFinish ==
    /\ initialized' = FALSE
    /\ process' = "None"
    /\ phase' = "stopped"
    /\ running' = CallerOfStop

\* if self._process: self._process.terminate(), which raises
\* ProcessLookupError for a child that has exited (the exception leaves
\* stop()); then wait_for(self._process.wait(), timeout=5.0)
StopTerminate ==
    /\ running = LC
    /\ phase = "stop_term"
    /\ IF process = "None"
       THEN StopFinish
       ELSE IF child = "exited"
       THEN /\ phase' = "stop_raised"
            /\ running' = CallerOfStop
            /\ UNCHANGED <<initialized, process>>
       ELSE /\ phase' = "stop_wait"
            /\ running' = NoProc
            /\ UNCHANGED <<initialized, process>>
    /\ UNCHANGED <<child, request_id, pending_requests, future, reader_task,
                   lock, waiters, stdin, pc, op, cur, outcome, ncalls,
                   nstops, issued, resolutions, expired, late, evars,
                   avars, pvars, rvars, fvars, tvars>>

\* self._process.wait() returned: the child has exited
StopWaitDone ==
    /\ running = NoProc
    /\ phase = "stop_wait"
    /\ child = "exited"
    /\ StopFinish
    /\ UNCHANGED <<child, request_id, pending_requests, future, reader_task,
                   lock, waiters, stdin, pc, op, cur, outcome, ncalls,
                   nstops, issued, resolutions, expired, late, evars,
                   avars, pvars, rvars, fvars, tvars>>

\* the 5 s pass with the child still running
StopGraceTimeout ==
    /\ running = NoProc
    /\ phase = "stop_wait"
    /\ child = "alive"
    /\ phase' = "stop_kill"
    /\ UNCHANGED <<process, child, request_id, pending_requests, future,
                   initialized, reader_task, lock, waiters, stdin, pc, op,
                   cur, outcome, running, ncalls, nstops, issued,
                   resolutions, expired, late, evars, avars, pvars,
                   rvars, fvars, tvars>>

\* except asyncio.TimeoutError: self._process.kill();
\* await self._process.wait()
StopKill ==
    /\ running = NoProc
    /\ phase = "stop_kill"
    /\ child = "alive"
    /\ child' = "exited"
    /\ phase' = "stop_wait"
    /\ UNCHANGED <<process, request_id, pending_requests, future,
                   initialized, reader_task, lock, waiters, stdin, pc, op,
                   cur, outcome, running, ncalls, nstops, issued,
                   resolutions, expired, late, evars, avars, pvars,
                   rvars, fvars, tvars>>

\* the child exited between the expiry of the 5 s and the resumption of
\* stop(): wait_for returns (Python <= 3.11) or kill() raises
\* ProcessLookupError (Python >= 3.12, where the expiry cancels the wait)
StopKillExited ==
    /\ running = NoProc
    /\ phase = "stop_kill"
    /\ child = "exited"
    /\ \E raises \in BOOLEAN :
          IF raises
          THEN /\ phase' = "stop_raised"
               /\ running' = CallerOfStop
               /\ UNCHANGED <<initialized, process>>
          ELSE StopFinish
    /\ UNCHANGED <<child, request_id, pending_requests, future, reader_task,
                   lock, waiters, stdin, pc, op, cur, outcome, ncalls,
                   nstops, issued, resolutions, expired, late, evars,
                   avars, pvars, rvars, fvars, tvars>>

(***************************************************************************)
(* stop_project (server.py)                                                *)
(***************************************************************************)
\* a faulty stop_project, for C17: the stopped client stays the active one
ClientKept == lsp_client

\* stop_project after stop() returned: _lsp_client = None
ClientAfterStopProject == "None"

\* stop_project with no active client: return "OK: No active project"
StopProjectNoClient ==
    /\ running = NoProc
    /\ project_tool = "none"
    /\ pc[LC] = "idle"
    /\ phase \in AtRest \cup {"unstarted"}
    /\ lsp_client = "None"
    /\ nstops' = nstops + 1
    /\ project_results' =
          Append(project_results,
                 Result("stop_project", "OK: No active project"))
    /\ UNCHANGED <<process, child, request_id, pending_requests, future,
                   initialized, reader_task, lock, waiters, stdin, pc, op,
                   cur, outcome, phase, running, ncalls, issued,
                   resolutions, expired, late, lsp_client, project_tool,
                   nstarts, stop_entry, replaced, evars, avars,
                   rvars, fvars, tvars>>

\* stop_project after `await _lsp_client.stop()`: _lsp_client = None;
\* return "OK: Project stopped", or `except Exception as e:
\* return f"ERROR: {e}"`, which leaves _lsp_client as it is
StopProjectAfterStop ==
    /\ running = LC
    /\ project_tool = "stop_project"
    /\ phase \in {"stopped", "stop_raised"}
    /\ IF phase = "stopped"
       THEN /\ lsp_client' = ClientAfterStopProject
            /\ project_results' =
                  Append(project_results,
                         Result("stop_project", "OK: Project stopped"))
       ELSE /\ project_results' =
                  Append(project_results, Result("stop_project", "ERROR"))
            /\ UNCHANGED lsp_client
    /\ project_tool' = "none"
    /\ running' = NoProc
    /\ UNCHANGED <<process, child, request_id, pending_requests, future,
                   initialized, reader_task, lock, waiters, stdin, pc, op,
                   cur, outcome, phase, ncalls, nstops, issued,
                   resolutions, expired, late, nstarts, stop_entry,
                   replaced, evars, avars, rvars, fvars, tvars>>

(***************************************************************************)
(* The session                                                             *)
(***************************************************************************)
\* the steps of _send_request, _send_notification and _write_message
SendNext ==
    \/ \E p \in Procs : SendRequestBegin(p)
    \/ \E p \in Procs : SendNotificationBegin(p)
    \/ \E p \in Procs : WriteMessage(p)
    \/ \E p \in Procs : LockAcquired(p)
    \/ \E p \in Procs : WriteFrame(p)
    \/ \E p \in Procs : AwaitDone(p)
    \/ \E p \in Procs : Timeout(p)
    \/ \E p \in Procs : TimeoutResume(p)

\* the sends of start() and stop(): one coroutine, which finds the lock
\* free
LifecycleSends ==
    \/ SendRequestBegin(LC)
    \/ SendNotificationBegin(LC)
    \/ WriteMessage(LC)
    \/ WriteFrame(LC)
    \/ AwaitDone(LC)
    \/ Timeout(LC)
    \/ TimeoutResume(LC)

\* the steps of start() and of stop() after its call
LifecycleNext ==
    \/ StartSpawnFails
    \/ Start
    \/ InitializeAnswered
    \/ InitializedSent
    \/ ShutdownAnswered
    \/ ExitSent
    \/ StopCancelReader
    \/ StopReaderAwaited
    \/ StopTerminate
    \/ StopWaitDone
    \/ StopGraceTimeout
    \/ StopKill
    \/ StopKillExited

\* one client: start_project makes and starts it, tools use it, stop() is
\* called on it
SessionNext ==
    \/ SendNext
    \/ \E p \in Procs : DrainResume(p)
    \/ ReaderStep
    \/ ReaderCancelled
    \/ ChildExit
    \/ \E c \in Callers : ToolCall(c)
    \/ \E c \in Callers : ToolContinue(c)
    \/ \E c \in Callers : ToolReturn(c)
    \/ nstarts = 0 /\ StartProject
    \/ nstops < MaxStops /\ Stop("none")
    \/ LifecycleNext

\* calls of rename_symbol on a started session
RenameNext ==
    \/ \E c \in Callers : SendRequestBegin(c)
    \/ \E c \in Callers : WriteMessage(c)
    \/ \E c \in Callers : LockAcquired(c)
    \/ \E c \in Callers : WriteFrame(c)
    \/ \E c \in Callers : DrainResume(c)
    \/ \E c \in Callers : AwaitDone(c)
    \/ \E c \in Callers : Timeout(c)
    \/ \E c \in Callers : TimeoutResume(c)
    \/ ReaderStep
    \/ ChildExit
    \/ \E c \in Callers : RenameCall(c)
    \/ \E c \in Callers : RenamePrepared(c)
    \/ \E c \in Callers : RenameDone(c)

\* requests of the tools on a started session, the reader followed frame by
\* frame
TableNext ==
    \/ \E c \in Callers : ToolCall(c)
    \/ \E c \in Callers : ToolContinue(c)
    \/ \E c \in Callers : ToolReturn(c)
    \/ \E c \in Callers : SendRequestBegin(c)
    \/ \E c \in Callers : WriteMessage(c)
    \/ \E c \in Callers : LockAcquired(c)
    \/ \E c \in Callers : WriteFrame(c)
    \/ \E c \in Callers : DrainResume(c)
    \/ \E c \in Callers : AwaitDone(c)
    \/ \E c \in Callers : Timeout(c)
    \/ \E c \in Callers : TimeoutResume(c)
    \/ Len(emitted) < MaxTableFrames /\ ChildWrites
    \/ ReadAndHandle

\* calls of start_project, stop_project and stop() so far
ProjectCalls == nstarts + nstops

\* the clients start_project and stop_project make, stop and replace, with
\* no other tool called
ProjectNext ==
    \/ LifecycleSends
    \/ ReaderStep
    \/ ReaderCancelled
    \/ ChildExit
    \/ ProjectCalls < MaxProjectCalls /\ StartProject
    \/ StartProjectAfterStop
    \/ ProjectCalls < MaxProjectCalls
          /\ \E tool_name \in StopCallers : Stop(tool_name)
    \/ ProjectCalls < MaxProjectCalls /\ StopProjectNoClient
    \/ StopProjectAfterStop
    \/ LifecycleNext

(***************************************************************************)
(* Text edits (server.py): _apply_text_edit and _apply_edits_to_file.      *)
(* A text is a sequence of characters; "LF", "CR" and "FF" stand for line  *)
(* feed, carriage return and form feed, every other character is ordinary. *)
(***************************************************************************)
MaxLen == 3      \* characters in a file
MaxEdits == 2    \* edits in one list
MaxAnyLen == 2   \* characters in a text that meets edits of any range
MaxLine == 2     \* line numbers in an edit of any range
MaxCharacter == 2   \* character offsets in an edit of any range

Chars == {"a", "LF", "CR", "FF"}
NewTexts == {<<>>, <<"x">>, <<"y">>}

Min2(a, b) == IF a <= b THEN a ELSE b

\* Python slices s[:n] and s[n:] for n >= 0
Take(s, n) == SubSeq(s, 1, Min2(n, Len(s)))
Drop(s, n) == SubSeq(s, Min2(n, Len(s)) + 1, Len(s))

\* "".join(lines)
RECURSIVE Join(_)
Join(lines) == IF lines = <<>> THEN <<>> ELSE Head(lines) \o Join(Tail(lines))

\* the characters at which str.splitlines ends a line
LineBoundaries == {"LF", "CR", "FF"}

\* length of the first line of a non-empty s, its terminator included
\* ("CR" followed by "LF" is one terminator)
FirstLineLen(s) ==
    LET ends == {k \in 1..Len(s) : s[k] \in LineBoundaries}
        k == IF ends = {} THEN Len(s)
             ELSE CHOOSE i \in ends : \A j \in ends : i <= j
    IN  IF k < Len(s) /\ s[k] = "CR" /\ s[k + 1] = "LF" THEN k + 1 ELSE k

\* content.splitlines(keepends=True)
RECURSIVE SplitLines(_)
SplitLines(s) ==
    IF s = <<>> THEN <<>>
    ELSE <<Take(s, FirstLineLen(s))>> \o SplitLines(Drop(s, FirstLineLen(s)))

\* file_path.read_text(encoding="utf-8"): the file is opened with universal
\* newlines, so "CR" "LF" and a lone "CR" are read as "LF"
RECURSIVE ReadText(_)
ReadText(raw) ==
    IF raw = <<>> THEN <<>>
    ELSE IF Head(raw) = "CR"
    THEN <<"LF">> \o ReadText(IF Len(raw) >= 2 /\ raw[2] = "LF"
                              THEN Drop(raw, 2) ELSE Tail(raw))
    ELSE <<Head(raw)>> \o ReadText(Tail(raw))

Position(l, c) == [line |-> l, character |-> c]
Range(s, e) == [start |-> s, end |-> e]
TextEdit(r, t) == [range |-> r, new_text |-> t]

\* lines = content.splitlines(keepends=True); if not lines: lines = [""]
Lines(text) == IF SplitLines(text) = <<>> THEN << <<>> >> ELSE SplitLines(text)

\* a faulty guard, for C30: the line is taken whatever its number
Unguarded(lines, pos) == TRUE

\* `if start.line < len(lines)`, `if end.line < len(lines)`
InLines(lines, pos) == pos.line < Len(lines)

\* lines[k] raises IndexError for k >= len(lines); the slices of a list or a
\* str raise nothing
IndexError(lines, k) == k >= Len(lines)

\* _apply_text_edit raises: it takes lines[start.line] or lines[end.line]
\* past the end of the list
Raises(text, edit) ==
    \/ /\ InLines(Lines(text), edit.range.start)
       /\ IndexError(Lines(text), edit.range.start.line)
    \/ /\ InLines(Lines(text), edit.range.end)
       /\ IndexError(Lines(text), edit.range.end.line)

\* _apply_text_edit(content, edit)
ApplyTextEdit(text, edit) ==
    LET lines == Lines(text)
        start == edit.range.start
        end == edit.range.end
        before_text ==
            Join(Take(lines, start.line))
            \o (IF InLines(lines, start)
                THEN Take(lines[start.line + 1], start.character)
                ELSE <<>>)
        after_text ==
            IF InLines(lines, end)
            THEN Drop(lines[end.line + 1], end.character)
                 \o Join(Drop(lines, end.line + 1))
            ELSE <<>>
    IN  before_text \o edit.new_text \o after_text

\* key=lambda e: (e.range.start.line, e.range.start.character)
KeyLess(d, e) ==
    \/ d.range.start.line < e.range.start.line
    \/ /\ d.range.start.line = e.range.start.line
       /\ d.range.start.character < e.range.start.character

\* sorted(edits, key=..., reverse=True): descending, and stable (edits with
\* equal keys keep the order they have in the list)
RECURSIVE SortedEdits(_)
SortedEdits(es) ==
    IF es = <<>> THEN <<>>
    ELSE LET top == {i \in 1..Len(es) :
                        \A j \in 1..Len(es) : ~KeyLess(es[i], es[j])}
             i == CHOOSE k \in top : \A j \in top : k <= j
         IN  <<es[i]>>
             \o SortedEdits(SubSeq(es, 1, i - 1) \o SubSeq(es, i + 1, Len(es)))

\* for edit in sorted_edits: content = _apply_text_edit(content, edit)
RECURSIVE ApplyAll(_, _)
ApplyAll(text, es) ==
    IF es = <<>> THEN text
    ELSE ApplyAll(ApplyTextEdit(text, Head(es)), Tail(es))

\* _apply_edits_to_file as a function of the stored text and the edit list
ApplyEditsToFile(raw, es) == ApplyAll(ReadText(raw), SortedEdits(es))

(***************************************************************************)
(* The document as the language server addresses it: lines end at "LF",    *)
(* "CR" "LF" or "CR"; a position is a line and a character offset in that   *)
(* line, at most the length of the line without its terminator.            *)
(***************************************************************************)
\* k is the last character of a line terminator of s
IsEol(s, k) ==
    \/ s[k] = "LF"
    \/ s[k] = "CR" /\ ~(k < Len(s) /\ s[k + 1] = "LF")

\* offsets at which the lines of s start
LineStarts(s) == {0} \cup {k \in 1..Len(s) : IsEol(s, k)}

LineStart(s, l) ==
    CHOOSE x \in LineStarts(s) :
        Cardinality({y \in LineStarts(s) : y < x}) = l

\* offset at which the text of line l ends (its terminator excluded)
LineEnd(s, l) ==
    LET stops == {k \in (LineStart(s, l) + 1)..Len(s) :
                     s[k] \in {"LF", "CR"}}
    IN  IF stops = {} THEN Len(s)
        ELSE (CHOOSE k \in stops : \A j \in stops : k <= j) - 1

ValidPosition(s, pos) ==
    /\ pos.line < Cardinality(LineStarts(s))
    /\ LineStart(s, pos.line) + pos.character <= LineEnd(s, pos.line)

\* the offset in s of a valid position
Offset(s, pos) == LineStart(s, pos.line) + pos.character

Positions(s) ==
    {pos \in {Position(l, c) : l \in 0..Len(s), c \in 0..Len(s)} :
        ValidPosition(s, pos)}

\* the edits a server can send for the document s
EditsFor(s) ==
    {TextEdit(Range(b, e), t) : b \in Positions(s), e \in Positions(s),
                                t \in NewTexts}

WellFormed(s, edit) ==
    Offset(s, edit.range.start) <= Offset(s, edit.range.end)

Texts == UNION {[1..n -> Chars] : n \in 0..MaxLen}

EditLists(s) ==
    UNION {[1..n -> {e \in EditsFor(s) : WellFormed(s, e)}] :
               n \in 0..MaxEdits}

(***************************************************************************)
(* _apply_edits_to_file, step by step                                      *)
(***************************************************************************)
EditIdle ==
    /\ file_text = <<>>
    /\ edits = <<>>
    /\ content = <<>>
    /\ sorted_edits = <<>>
    /\ epc = "idle"

\* edits a server is free to send whatever the document holds: lines and
\* characters up to MaxLine and MaxCharacter, ranges in either direction
AnyTexts == UNION {[1..n -> {"a", "LF"}] : n \in 0..MaxAnyLen}
AnyPositions ==
    {Position(l, c) : l \in 0..MaxLine, c \in 0..MaxCharacter}
AnyEdits ==
    {TextEdit(Range(b, e), t) : b \in AnyPositions, e \in AnyPositions,
                                t \in {<<>>, <<"x">>}}
AnyEditLists == UNION {[1..n -> AnyEdits] : n \in 0..MaxEdits}

\* a call of _apply_edits_to_file with any text and any edits
AnyEditInit ==
    /\ file_text \in AnyTexts
    /\ edits \in AnyEditLists
    /\ content = <<>>
    /\ sorted_edits = <<>>
    /\ epc = "read"

\* a call of _apply_edits_to_file(file_path, edits)
EditInit ==
    /\ file_text \in Texts
    /\ edits \in EditLists(file_text)
    /\ content = <<>>
    /\ sorted_edits = <<>>
    /\ epc = "read"

\* content = file_path.read_text(encoding="utf-8");
\* sorted_edits = sorted(edits, key=..., reverse=True)
ReadAndSort ==
    /\ epc = "read"
    /\ content' = ReadText(file_text)
    /\ sorted_edits' = SortedEdits(edits)
    /\ epc' = "loop"
    /\ UNCHANGED <<file_text, edits, svars, avars>>

\* one turn of `for edit in sorted_edits`
ApplyNextEdit ==
    /\ epc = "loop"
    /\ sorted_edits # <<>>
    /\ IF Raises(content, Head(sorted_edits))
       THEN /\ epc' = "raised"
            /\ UNCHANGED <<content, sorted_edits>>
       ELSE /\ content' = ApplyTextEdit(content, Head(sorted_edits))
            /\ sorted_edits' = Tail(sorted_edits)
            /\ UNCHANGED epc
    /\ UNCHANGED <<file_text, edits, svars, avars>>

\* return content
ReturnContent ==
    /\ epc = "loop"
    /\ sorted_edits = <<>>
    /\ epc' = "done"
    /\ UNCHANGED <<file_text, edits, content, sorted_edits, svars, avars>>

EditNext ==
    \/ ReadAndSort
    \/ ApplyNextEdit
    \/ ReturnContent

(***************************************************************************)
(* The tools that receive a WorkspaceEdit (server.py): safe_rename,        *)
(* apply_code_action, get_edit_preview.  A path and a URI are sequences of *)
(* characters; "file://" is one element.                                   *)
(***************************************************************************)
\* the files a project can hold
Paths == {<<"/", "a">>, <<"/", "b", " ">>, <<"/", "b", "%", "2", "0">>}

\* the texts a file can hold when the tool is called
FileTexts == {<<"a">>, <<"a", "LF", "a">>}

\* Path.as_uri() (lsp_client.py), which the server's URIs agree with: the
\* path is percent-encoded
RECURSIVE Quote(_)
Quote(path) ==
    IF path = <<>> THEN <<>>
    ELSE (CASE Head(path) = " " -> <<"%", "2", "0">>
            [] Head(path) = "%" -> <<"%", "2", "5">>
            [] OTHER -> <<Head(path)>>)
         \o Quote(Tail(path))

AsUri(path) == <<"file://">> \o Quote(path)

\* _uri_to_path(uri): the prefix is cut off (and the "/" before a drive
\* letter); nothing is decoded
UriToPath(uri) ==
    IF uri # <<>> /\ Head(uri) = "file://"
    THEN LET path == Tail(uri)
         IN  IF Len(path) > 2 /\ path[1] = "/" /\ path[3] = ":"
             THEN Tail(path) ELSE path
    ELSE uri

NoFile == [exists |-> FALSE, text |-> <<>>]
File(text) == [exists |-> TRUE, text |-> text]

\* file_to_edit.exists()
Exists(path) == path \in Paths /\ fs[path].exists

\* file_to_edit.write_text(new_content, encoding="utf-8") on POSIX, where
\* "LF" is written as it is
WriteText(new_content) == File(new_content)

\* the edit lists of a WorkspaceEdit: none, one insertion, the deletion of
\* the first character with an insertion before it
EditChoices ==
    LET insert == TextEdit(Range(Position(0, 0), Position(0, 0)), <<"x">>)
        delete == TextEdit(Range(Position(0, 0), Position(0, 1)), <<>>)
    IN  {<<>>, <<insert>>, <<delete, insert>>}

Item(uri, es) == [uri |-> uri, edits |-> es]

\* the server sends edits for files of the project
ServerUris == {AsUri(path) : path \in {f \in Paths : fs[f].exists}}

\* WorkspaceEdit.from_dict: `changes` is a dict (one entry per URI, in the
\* order of the message), `document_changes` a list of TextDocumentEdits
MaxChanges == 2
MaxDocumentChanges == 1

Distinct(items) ==
    \A i, j \in 1..Len(items) : i # j => items[i].uri # items[j].uri

ItemLists(n) ==
    UNION {[1..k -> {Item(u, es) : u \in ServerUris, es \in EditChoices}] :
              k \in 0..n}

\* an entry of "documentChanges": a TextDocumentEdit ("textDocument" and
\* "edits"), or a create / rename / delete operation ("kind", no
\* "textDocument")
DocumentChange(kind, uri, es) == [kind |-> kind, uri |-> uri, edits |-> es]
ResourceOperations ==
    {DocumentChange(kind, <<>>, <<>>) :
        kind \in {"create", "rename", "delete"}}
TextDocumentEdits ==
    {DocumentChange("edit", u, es) : u \in ServerUris, es \in EditChoices}

DocumentChangeLists(n) ==
    UNION {[1..k -> TextDocumentEdits \cup ResourceOperations] : k \in 0..n}

\* the "edit" of a code action, or the result of textDocument/rename
EditData ==
    {[changes |-> c, documentChanges |-> d] :
        c \in {items \in ItemLists(MaxChanges) : Distinct(items)},
        d \in DocumentChangeLists(MaxDocumentChanges)}

NoEditData == [changes |-> <<>>, documentChanges |-> <<>>]

\* if "textDocument" in dc
HasTextDocument(dc) == dc.kind = "edit"

\* WorkspaceEdit.from_dict: the changes as they are, and a TextDocumentEdit
\* for each entry of documentChanges that has a "textDocument"
FromDict(data) ==
    LET kept == SelectSeq(data.documentChanges, HasTextDocument)
    IN  [changes |-> data.changes,
         document_changes |->
             [k \in 1..Len(kept) |-> Item(kept[k].uri, kept[k].edits)]]

WorkspaceEdits == {FromDict(data) : data \in EditData}

NoWorkspaceEdit == [changes |-> <<>>, document_changes |-> <<>>]
NoTool == [name |-> "none", apply |-> FALSE]

\* the text a tool returns: its first word, the file names after "MODIFIED:",
\* and for "ERROR: {e}" the file the exception is about
NoResult == [status |-> "none", modified |-> <<>>, about |-> <<>>]
Returned(status, names) ==
    [status |-> status, modified |-> names, about |-> <<>>]
Error(path) == [status |-> "ERROR", modified |-> <<>>, about |-> path]

\* index of uri in a list of items, 0 if it has none
IndexOf(items, uri) ==
    IF \E k \in 1..Len(items) : items[k].uri = uri
    THEN CHOOSE k \in 1..Len(items) : items[k].uri = uri
    ELSE 0

\* WorkspaceEdit.get_all_edits: result = dict(self.changes); the edits of
\* each TextDocumentEdit are appended to the entry of its URI, or make a new
\* entry at the end
RECURSIVE Merge(_, _)
Merge(result, doc_edits) ==
    IF doc_edits = <<>> THEN result
    ELSE LET d == Head(doc_edits)
             k == IndexOf(result, d.uri)
         IN  Merge(IF k = 0 THEN Append(result, d)
                   ELSE [result EXCEPT ![k].edits = @ \o d.edits],
                   Tail(doc_edits))

GetAllEdits(we) == Merge(we.changes, we.document_changes)

\* dict(self.changes) copies the dict and not its lists: the `extend` in
\* get_all_edits also lengthens the lists of self.changes
ChangesAfterGetAllEdits(we) ==
    [k \in 1..Len(we.changes) |-> GetAllEdits(we)[k]]

ApplyIdle ==
    /\ fs = <<>>
    /\ fs0 = <<>>
    /\ tool = NoTool
    /\ edit_data = NoEditData
    /\ workspace_edit = NoWorkspaceEdit
    /\ all_edits = <<>>
    /\ todo = <<>>
    /\ applied_files = <<>>
    /\ written = {}
    /\ tool_result = NoResult
    /\ apc = "idle"

\* a project on disk and no tool running
ApplyInit ==
    /\ fs \in [Paths -> {NoFile} \cup {File(t) : t \in FileTexts}]
    /\ fs0 = fs
    /\ tool = NoTool
    /\ edit_data = NoEditData
    /\ workspace_edit = NoWorkspaceEdit
    /\ all_edits = <<>>
    /\ todo = <<>>
    /\ applied_files = <<>>
    /\ written = {}
    /\ tool_result = NoResult
    /\ apc = "idle"

Tools ==
    {[name |-> "safe_rename", apply |-> TRUE],
     [name |-> "safe_rename", apply |-> FALSE],
     [name |-> "apply_code_action", apply |-> TRUE],
     [name |-> "get_edit_preview", apply |-> FALSE]}

\* the tool writes files: safe_rename with apply=True, apply_code_action
Applies(t) ==
    t.name = "apply_code_action" \/ (t.name = "safe_rename" /\ t.apply)

\* the tool is called and gets a WorkspaceEdit from the client
\* (rename_symbol, or the edit of the chosen code action)
ToolGetsEdit ==
    /\ apc = "idle"
    /\ \E t \in Tools, data \in EditData :
          /\ tool' = t
          /\ edit_data' = data
          /\ workspace_edit' = FromDict(data)
    /\ apc' = "got_edit"
    /\ UNCHANGED <<fs, fs0, all_edits, todo, applied_files, written,
                   tool_result, svars, evars>>

\* all_edits = workspace_edit.get_all_edits() in safe_rename and
\* apply_code_action; in get_edit_preview the call that
\* _format_workspace_edit makes first
CallGetAllEdits ==
    /\ apc = "got_edit"
    /\ all_edits' = GetAllEdits(workspace_edit)
    /\ workspace_edit' =
          [workspace_edit EXCEPT
              !.changes = ChangesAfterGetAllEdits(workspace_edit)]
    /\ IF Applies(tool)
       THEN /\ todo' = GetAllEdits(workspace_edit)
            /\ apc' = "loop"
       ELSE /\ apc' = "preview"
            /\ UNCHANGED todo
    /\ UNCHANGED <<fs, fs0, tool, edit_data, applied_files, written,
                   tool_result, svars, evars>>

\* the preview: get_all_edits is called a second time (by
\* _format_workspace_edit in safe_rename, for all_edits in
\* get_edit_preview), and the text is returned.  In safe_rename the lists
\* of all_edits that came from self.changes are the lists the second call
\* lengthens, so all_edits is what the second call returns there too.
Preview ==
    /\ apc = "preview"
    /\ all_edits' = GetAllEdits(workspace_edit)
    /\ workspace_edit' =
          [workspace_edit EXCEPT
              !.changes = ChangesAfterGetAllEdits(workspace_edit)]
    /\ tool_result' = Returned("PREVIEW", <<>>)
    /\ apc' = "done"
    /\ UNCHANGED <<fs, fs0, tool, edit_data, todo, applied_files, written,
                   svars, evars>>

\* except Exception as e: return f"ERROR: {e}": the text of the exception,
\* which names the file whose read or write raised
ErrorResult(path) == Error(path)

\* one turn of `for uri, edits in all_edits.items()`:
\* file_to_edit = _uri_to_path(uri); if file_to_edit.exists(): the new
\* content is computed and written, the name recorded.  Reading or writing
\* can raise (an undecodable file, no permission): `except Exception`
\* returns "ERROR: ..." and the loop is left.
ApplyFile ==
    /\ apc = "loop"
    /\ todo # <<>>
    /\ LET uri == Head(todo).uri
           file_to_edit == UriToPath(uri)
           new_content == ApplyEditsToFile(fs[file_to_edit].text,
                                           Head(todo).edits)
       IN  IF Exists(file_to_edit)
           THEN \E raises \in BOOLEAN :
                   IF raises
                   THEN /\ tool_result' = ErrorResult(file_to_edit)
                        /\ apc' = "error"
                        /\ UNCHANGED <<fs, written, applied_files, todo>>
                   ELSE /\ fs' = [fs EXCEPT
                                     ![file_to_edit] = WriteText(new_content)]
                        /\ written' = written \cup {file_to_edit}
                        /\ applied_files' = Append(applied_files, file_to_edit)
                        /\ todo' = Tail(todo)
                        /\ UNCHANGED <<tool_result, apc>>
           ELSE /\ todo' = Tail(todo)
                /\ UNCHANGED <<fs, written, applied_files, tool_result,
                               apc>>
    /\ UNCHANGED <<fs0, tool, edit_data, workspace_edit, all_edits, svars,
                   evars>>

\* the loop is over: "RENAMED: ... MODIFIED: ..." / "APPLIED: ..."
ApplyReturn ==
    /\ apc = "loop"
    /\ todo = <<>>
    /\ tool_result' =
          Returned(IF tool.name = "safe_rename" THEN "RENAMED" ELSE "APPLIED",
                   applied_files)
    /\ apc' = "done"
    /\ UNCHANGED <<fs, fs0, tool, edit_data, workspace_edit, all_edits,
                   todo, applied_files, written, svars, evars>>

ApplyNext ==
    \/ ToolGetsEdit
    \/ CallGetAllEdits
    \/ Preview
    \/ ApplyFile
    \/ ApplyReturn

(***************************************************************************)
(* _write_message and _read_message, byte by byte.  A character of a       *)
(* string is a plain ASCII character, or one of "QUOTE", "BACKSLASH", "LF" *)
(* and "E_ACUTE" (a character outside ASCII).  A byte is written as the    *)
(* ASCII character it encodes; "xC3" "xA9" are the two bytes of "E_ACUTE"  *)
(* in UTF-8.  A JSON value is a string, an integer or null; a message is   *)
(* the list of the items of a dict, in insertion order.                    *)
(***************************************************************************)
TextChars == {"a", "QUOTE", "BACKSLASH", "LF", "E_ACUTE"}
ParamTexts == UNION {[1..n -> TextChars] : n \in 0..MaxText}

Str(chars) == [t |-> "str", v |-> chars, n |-> 0]
Number(n) == [t |-> "int", v |-> <<>>, n |-> n]
Null == [t |-> "null", v |-> <<>>, n |-> 0]

Member(key, value) == [key |-> key, value |-> value]

\* request = {"jsonrpc": "2.0", "id": request_id, "method": method,
\*            "params": params}
RequestMessage(id, method, params) ==
    <<Member(<<"j", "s", "o", "n", "r", "p", "c">>, Str(<<"2", ".", "0">>)),
      Member(<<"i", "d">>, Number(id)),
      Member(<<"m", "e", "t", "h", "o", "d">>, Str(method)),
      Member(<<"p", "a", "r", "a", "m", "s">>, params)>>

\* notification = {"jsonrpc": "2.0", "method": method, "params": params}
NotificationMessage(method, params) ==
    <<Member(<<"j", "s", "o", "n", "r", "p", "c">>, Str(<<"2", ".", "0">>)),
      Member(<<"m", "e", "t", "h", "o", "d">>, Str(method)),
      Member(<<"p", "a", "r", "a", "m", "s">>, params)>>

\* the messages handed to _write_message: a one-digit and a two-digit id,
\* a method name, and params that are null (shutdown, exit) or carry a text
OutIds == {7, 12}
OutMethods == {<<"m">>}
OutParams == {Null} \cup {Str(t) : t \in ParamTexts}
Messages ==
    {RequestMessage(i, m, p) : i \in OutIds, m \in OutMethods, p \in OutParams}
    \cup {NotificationMessage(m, p) : m \in OutMethods, p \in OutParams}

\* a faulty encoder, for C23: the characters of a string are written as
\* they are
JsonCharRaw(c) == <<c>>

\* json.dumps (ensure_ascii=True): the characters written for one character
\* of a string
JsonChar(c) ==
    CASE c = "QUOTE" -> <<"BACKSLASH", "QUOTE">>
      [] c = "BACKSLASH" -> <<"BACKSLASH", "BACKSLASH">>
      [] c = "LF" -> <<"BACKSLASH", "n">>
      [] c = "E_ACUTE" -> <<"BACKSLASH", "u", "0", "0", "e", "9">>
      [] OTHER -> <<c>>

RECURSIVE JsonChars(_)
JsonChars(chars) ==
    IF chars = <<>> THEN <<>>
    ELSE JsonChar(Head(chars)) \o JsonChars(Tail(chars))

JsonString(chars) == <<"QUOTE">> \o JsonChars(chars) \o <<"QUOTE">>

DigitChars == <<"0", "1", "2", "3", "4", "5", "6", "7", "8", "9">>

\* str(n) for n >= 0
RECURSIVE ToDigits(_)
ToDigits(n) ==
    IF n < 10 THEN <<DigitChars[n + 1]>>
    ELSE ToDigits(n \div 10) \o <<DigitChars[(n % 10) + 1]>>

JsonValue(value) ==
    CASE value.t = "str" -> JsonString(value.v)
      [] value.t = "int" -> ToDigits(value.n)
      [] OTHER -> <<"n", "u", "l", "l">>

RECURSIVE JsonItems(_)
JsonItems(items) ==
    IF items = <<>> THEN <<>>
    ELSE JsonString(Head(items).key) \o <<":", " ">>
            \o JsonValue(Head(items).value)
            \o (IF Len(items) > 1 THEN <<",", " ">> ELSE <<>>)
            \o JsonItems(Tail(items))

\* json.dumps(message)
Dumps(items) == <<"{">> \o JsonItems(items) \o <<"}">>

\* str.encode("utf-8")
RECURSIVE Utf8Encode(_)
Utf8Encode(chars) ==
    IF chars = <<>> THEN <<>>
    ELSE (IF Head(chars) = "E_ACUTE" THEN <<"xC3", "xA9">>
          ELSE <<Head(chars)>>) \o Utf8Encode(Tail(chars))

\* body = json.dumps(message).encode("utf-8")
Body(items) == Utf8Encode(Dumps(items))

\* header = f"Content-Length: {len(body)}\r\n\r\n".encode("ascii")
Header(body) ==
    <<"C", "o", "n", "t", "e", "n", "t", "-", "L", "e", "n", "g", "t", "h",
      ":", " ">> \o ToDigits(Len(body)) \o <<"CR", "LF", "CR", "LF">>

\* _write_message: self._process.stdin.write(header + body)
EncodeFrame ==
    /\ fpc = "encode"
    /\ wire' = wire \o Header(Body(out_message)) \o Body(out_message)
    /\ fpc' = "header"
    /\ UNCHANGED <<out_message, content_length, decoded, cvars, pvars,
                   rvars, tvars, evars, avars>>

\* what _read_message returned or raised; NotRead before it has
NotRead == [kind |-> "none", value |-> <<>>]
ReturnedNone == [kind |-> "None", value |-> <<>>]
ReturnedMessage(items) == [kind |-> "message", value |-> items]
ReadRaised == [kind |-> "raised", value |-> <<>>]

FramerIdle ==
    /\ out_message = <<>>
    /\ wire = <<>>
    /\ content_length = 0
    /\ decoded = NotRead
    /\ fpc = "idle"

\* StreamReader.readline(): the bytes up to and including the first LF, or
\* all that is left at the end of the stream
ReadLine(w) ==
    IF \E k \in 1..Len(w) : w[k] = "LF"
    THEN SubSeq(w, 1, Min({k \in 1..Len(w) : w[k] = "LF"}))
    ELSE w

Whitespace == {" ", "CR", "LF"}

\* str.strip()
RECURSIVE StripLeft(_)
StripLeft(chars) ==
    IF chars # <<>> /\ Head(chars) \in Whitespace
    THEN StripLeft(Tail(chars)) ELSE chars

RECURSIVE StripRight(_)
StripRight(chars) ==
    IF chars # <<>> /\ chars[Len(chars)] \in Whitespace
    THEN StripRight(SubSeq(chars, 1, Len(chars) - 1)) ELSE chars

Strip(chars) == StripRight(StripLeft(chars))

\* str.lower(), on the letters a header name of the model has in capitals
Lower(chars) ==
    [k \in 1..Len(chars) |->
        CASE chars[k] = "C" -> "c"
          [] chars[k] = "L" -> "l"
          [] OTHER -> chars[k]]

StartsWith(chars, prefix) ==
    /\ Len(chars) >= Len(prefix)
    /\ SubSeq(chars, 1, Len(prefix)) = prefix

\* chars.split(":")[1]: what stands between the first colon and the next
\* one (or the end); the line has a colon
AfterColon(chars) ==
    LET first == Min({k \in 1..Len(chars) : chars[k] = ":"})
        rest == SubSeq(chars, first + 1, Len(chars))
    IN  IF \E k \in 1..Len(rest) : rest[k] = ":"
        THEN SubSeq(rest, 1, Min({k \in 1..Len(rest) : rest[k] = ":"}) - 1)
        ELSE rest

IsDigit(c) == \E d \in 1..10 : DigitChars[d] = c
DigitValue(c) == (CHOOSE d \in 1..10 : DigitChars[d] = c) - 1

\* int(chars) for a non-empty sequence of digits
RECURSIVE FromDigits(_)
FromDigits(chars) ==
    IF chars = <<>> THEN 0
    ELSE 10 * FromDigits(SubSeq(chars, 1, Len(chars) - 1))
            + DigitValue(chars[Len(chars)])

IsNumber(chars) ==
    chars # <<>> /\ \A k \in 1..Len(chars) : IsDigit(chars[k])

IsAscii(bytes) == \A k \in 1..Len(bytes) : bytes[k] \notin {"xC3", "xA9"}

\* one turn of the header loop of _read_message: readline, decode, strip;
\* nothing read: return None; an empty line ends the headers; a
\* Content-Length line sets content_length
ReadHeaderLine ==
    /\ fpc = "header"
    /\ LET line == ReadLine(wire)
           line_str == Strip(line)
       IN  /\ wire' = SubSeq(wire, Len(line) + 1, Len(wire))
           /\ IF line = <<>>
              THEN /\ decoded' = ReturnedNone
                   /\ fpc' = "done"
                   /\ UNCHANGED content_length
              ELSE IF ~IsAscii(line)
              THEN /\ decoded' = ReadRaised
                   /\ fpc' = "done"
                   /\ UNCHANGED content_length
              ELSE IF line_str = <<>>
              THEN /\ fpc' = "body"
                   /\ UNCHANGED <<content_length, decoded>>
              ELSE IF StartsWith(Lower(line_str),
                                 <<"c", "o", "n", "t", "e", "n", "t", "-", "l",
                                   "e", "n", "g", "t", "h", ":">>)
              THEN IF IsNumber(Strip(AfterColon(line_str)))
                   THEN /\ content_length' =
                               FromDigits(Strip(AfterColon(line_str)))
                        /\ UNCHANGED <<fpc, decoded>>
                   ELSE /\ decoded' = ReadRaised
                        /\ fpc' = "done"
                        /\ UNCHANGED content_length
              ELSE UNCHANGED <<content_length, fpc, decoded>>
    /\ UNCHANGED <<out_message, cvars, pvars, rvars, tvars, evars,
                   avars>>

\* the bytes are UTF-8: "xC3" and "xA9" come in pairs, in this order
IsUtf8(bytes) ==
    \A k \in 1..Len(bytes) :
        /\ bytes[k] = "xC3" => k < Len(bytes) /\ bytes[k + 1] = "xA9"
        /\ bytes[k] = "xA9" => k > 1 /\ bytes[k - 1] = "xC3"

\* bytes.decode("utf-8") for bytes that are UTF-8
RECURSIVE Utf8Decode(_)
Utf8Decode(bytes) ==
    IF bytes = <<>> THEN <<>>
    ELSE IF Head(bytes) = "xC3"
    THEN <<"E_ACUTE">> \o Utf8Decode(SubSeq(bytes, 3, Len(bytes)))
    ELSE <<Head(bytes)>> \o Utf8Decode(Tail(bytes))

\* the result of a parsing step: the value read and the position after it
Parsed(value, next) == [ok |-> TRUE, value |-> value, next |-> next]
ParseFailed == [ok |-> FALSE, value |-> Null, next |-> 0]

\* the JSON decoder inside a string, from position i (after the opening
\* quote): escapes are undone, a bare control character is an error
RECURSIVE ScanString(_, _, _)
ScanString(s, i, acc) ==
    IF i > Len(s) THEN ParseFailed
    ELSE IF s[i] = "QUOTE" THEN Parsed(Str(acc), i + 1)
    ELSE IF s[i] = "BACKSLASH"
    THEN IF i + 1 > Len(s) THEN ParseFailed
         ELSE IF s[i + 1] \in {"QUOTE", "BACKSLASH"}
         THEN ScanString(s, i + 2, Append(acc, s[i + 1]))
         ELSE IF s[i + 1] = "n"
         THEN ScanString(s, i + 2, Append(acc, "LF"))
         ELSE IF /\ s[i + 1] = "u"
                 /\ i + 5 <= Len(s)
                 /\ SubSeq(s, i + 2, i + 5) = <<"0", "0", "e", "9">>
         THEN ScanString(s, i + 6, Append(acc, "E_ACUTE"))
         ELSE ParseFailed
    ELSE IF s[i] \in {"LF", "CR"} THEN ParseFailed
    ELSE ScanString(s, i + 1, Append(acc, s[i]))

\* the digits of a number, from position i
RECURSIVE ScanDigits(_, _, _)
ScanDigits(s, i, acc) ==
    IF i <= Len(s) /\ IsDigit(s[i])
    THEN ScanDigits(s, i + 1, Append(acc, s[i]))
    ELSE Parsed(Number(FromDigits(acc)), i)

\* whitespace between the tokens is skipped
RECURSIVE SkipWhitespace(_, _)
SkipWhitespace(s, i) ==
    IF i <= Len(s) /\ s[i] \in Whitespace
    THEN SkipWhitespace(s, i + 1) ELSE i

\* a value at position i: a string, a number, or null
ParseValue(s, i) ==
    IF i > Len(s) THEN ParseFailed
    ELSE IF s[i] = "QUOTE" THEN ScanString(s, i + 1, <<>>)
    ELSE IF IsDigit(s[i]) THEN ScanDigits(s, i, <<>>)
    ELSE IF /\ i + 3 <= Len(s)
            /\ SubSeq(s, i, i + 3) = <<"n", "u", "l", "l">>
    THEN Parsed(Null, i + 4)
    ELSE ParseFailed

\* the items of an object, from position i (after "{" or ","): key, colon,
\* value, then "," or "}"
RECURSIVE ParseItems(_, _, _)
ParseItems(s, i, acc) ==
    LET k == SkipWhitespace(s, i)
        name == IF k <= Len(s) /\ s[k] = "QUOTE"
                THEN ScanString(s, k + 1, <<>>) ELSE ParseFailed
        colon == IF name.ok THEN SkipWhitespace(s, name.next) ELSE 0
        val == IF name.ok /\ colon <= Len(s) /\ s[colon] = ":"
               THEN ParseValue(s, SkipWhitespace(s, colon + 1))
               ELSE ParseFailed
        after == IF val.ok THEN SkipWhitespace(s, val.next) ELSE 0
        members == Append(acc, Member(name.value.v, val.value))
    IN  IF ~val.ok \/ after > Len(s) THEN ParseFailed
        ELSE IF s[after] = "}" THEN Parsed(members, after + 1)
        ELSE IF s[after] = "," THEN ParseItems(s, after + 1, members)
        ELSE ParseFailed

\* json.loads(text) for an object: the items, or JSONDecodeError
Loads(s) ==
    LET open == SkipWhitespace(s, 1)
        first == IF open <= Len(s) /\ s[open] = "{"
                 THEN SkipWhitespace(s, open + 1) ELSE Len(s) + 1
        object == IF first > Len(s) THEN ParseFailed
                  ELSE IF s[first] = "}" THEN Parsed(<<>>, first + 1)
                  ELSE ParseItems(s, first, <<>>)
    IN  IF object.ok /\ SkipWhitespace(s, object.next) = Len(s) + 1
        THEN ReturnedMessage(object.value)
        ELSE ReadRaised

\* json.loads(body.decode("utf-8"))
DecodeBody(body) ==
    IF IsUtf8(body) THEN Loads(Utf8Decode(body)) ELSE ReadRaised

\* the rest of _read_message: content_length == 0 returns None; else
\* readexactly(content_length), which raises at a short stream, and
\* json.loads
ReadBody ==
    /\ fpc = "body"
    /\ IF content_length = 0
       THEN /\ decoded' = ReturnedNone
            /\ UNCHANGED wire
       ELSE IF Len(wire) < content_length
       THEN /\ decoded' = ReadRaised
            /\ wire' = <<>>
       ELSE /\ decoded' = DecodeBody(SubSeq(wire, 1, content_length))
            /\ wire' = SubSeq(wire, content_length + 1, Len(wire))
    /\ fpc' = "done"
    /\ UNCHANGED <<out_message, content_length, cvars, pvars, rvars, tvars,
                   evars, avars>>

\* a message is written, then read back from the bytes written
FrameInit ==
    /\ out_message \in Messages
    /\ wire = <<>>
    /\ content_length = 0
    /\ decoded = NotRead
    /\ fpc = "encode"

FrameNext == EncodeFrame \/ ReadHeaderLine \/ ReadBody

(***************************************************************************)
(* start_project and stop_project called concurrently (server.py).  The    *)
(* event loop runs several tool coroutines; each call runs from one await  *)
(* to the next without interruption, and another call can run while it is  *)
(* suspended.  stop() and start() are followed here at the grain of their  *)
(* awaits: the shutdown exchange, the cancelled reader task, the wait for  *)
(* the terminated child, create_subprocess_exec, the initialize request.   *)
(***************************************************************************)
ToolSlots == 1..NProjectCalls
ClientIds == 1..NProjectCalls   \* a start_project call makes one client
NoClient == 0                   \* _lsp_client is None

\* TyLspClient.__init__: no process, no reader task, not initialized;
\* `made` tells the objects that exist from those not constructed yet
Unmade ==
    [made |-> FALSE, process |-> "None", child |-> "none",
     reader_task |-> "None", initialized |-> FALSE]

IdleCall ==
    [tool |-> "none", pc |-> "idle", client |-> NoClient, result |-> "none"]

\* no project tool has been called, _lsp_client = None
ProjectsIdle ==
    /\ global_client = NoClient
    /\ clients = [o \in ClientIds |-> Unmade]
    /\ project_calls = [k \in ToolSlots |-> IdleCall]

ToolsIdle == RenameIdle /\ ProjectsIdle

\* the module state a slice of a call reads and writes
World ==
    [global |-> global_client, clients |-> clients, calls |-> project_calls]

\* the call awaits: the slice ends here
Suspend(w, k, at) == [w EXCEPT !.calls[k].pc = at]

\* the call returns `result`
Return(w, k, result) ==
    [w EXCEPT !.calls[k].pc = "done", !.calls[k].result = result]

\* TyLspClient(): the next object
NewClientId(w) ==
    CHOOSE o \in ClientIds :
        /\ ~w.clients[o].made
        /\ \A n \in ClientIds : n < o => w.clients[n].made

\* the statements call k runs from the program point `at` to its next
\* await or to its return
RECURSIVE RunCall(_, _, _)
RunCall(w, k, at) ==
    LET o == w.calls[k].client
        self == w.clients[o]
    IN  CASE at = "start_project" ->
               \* if _lsp_client is not None: await _lsp_client.stop()
               IF w.global # NoClient
               THEN RunCall([w EXCEPT !.calls[k].client = w.global],
                            k, "stop")
               ELSE RunCall(w, k, "new_client")
          [] at = "stop_project" ->
               IF w.global = NoClient
               THEN Return(w, k, "OK: No active project")
               ELSE RunCall([w EXCEPT !.calls[k].client = w.global],
                            k, "stop")
          [] at = "stop" ->
               \* if self._initialized: shutdown, then exit
               IF self.initialized
               THEN Suspend(w, k, "await_shutdown")
               ELSE RunCall(w, k, "stop_reader")
          [] at = "stop_reader" ->
               \* if self._reader_task: cancel it and await it
               IF self.reader_task \in {"None", "done"}
               THEN RunCall(w, k, "stop_process")
               ELSE Suspend(
                       [w EXCEPT !.clients[o].reader_task = "cancelled"],
                       k, "await_reader")
          [] at = "stop_process" ->
               \* if self._process: terminate it and wait for it
               IF self.process = "None"
               THEN RunCall(w, k, "stop_end")
               ELSE Suspend(
                       [w EXCEPT !.clients[o].child =
                                     IF @ = "alive" THEN "terminating"
                                     ELSE @],
                       k, "await_wait")
          [] at = "stop_end" ->
               LET stopped ==
                       [w EXCEPT !.clients[o].initialized = FALSE,
                                 !.clients[o].process = "None"]
               IN  IF w.calls[k].tool = "start_project"
                   THEN RunCall(stopped, k, "new_client")
                   ELSE Return([stopped EXCEPT !.global = NoClient],
                               k, "OK: Project stopped")
          [] at = "new_client" ->
               \* _lsp_client = TyLspClient(); start() up to
               \* create_subprocess_exec
               LET n == NewClientId(w)
               IN  Suspend([w EXCEPT !.global = n,
                                     !.clients[n].made = TRUE,
                                     !.calls[k].client = n],
                           k, "await_spawn")
          [] at = "except" ->
               \* except Exception: _lsp_client = None
               Return([w EXCEPT !.global = NoClient], k, "ERROR")

\* the slice of call k leaves the module state `w`
Becomes(w) ==
    /\ global_client' = w.global
    /\ clients' = w.clients
    /\ project_calls' = w.calls
    /\ UNCHANGED <<cvars, pvars, rvars, fvars, prepare_result, evars,
                   avars>>

\* the path exists and is a directory; the calls take the slots in order
FreeSlot(k) ==
    /\ project_calls[k].pc = "idle"
    /\ \A j \in ToolSlots : j < k => project_calls[j].pc # "idle"

CallStartProject(k) ==
    /\ FreeSlot(k)
    /\ Becomes(RunCall([World EXCEPT !.calls[k].tool = "start_project"],
                       k, "start_project"))

CallStopProject(k) ==
    /\ FreeSlot(k)
    /\ Becomes(RunCall([World EXCEPT !.calls[k].tool = "stop_project"],
                       k, "stop_project"))

\* the shutdown exchange of stop() is over, by its results or by an
\* exception that stop() logs
ShutdownOver(k) ==
    /\ project_calls[k].pc = "await_shutdown"
    /\ Becomes(RunCall(World, k, "stop_reader"))

\* the cancelled reader task has finished
ReaderAwaited(k) ==
    /\ project_calls[k].pc = "await_reader"
    /\ Becomes(RunCall(
           [World EXCEPT
               !.clients[project_calls[k].client].reader_task = "done"],
           k, "stop_process"))

\* the terminated (or killed) child has exited
ChildWaited(k) ==
    /\ project_calls[k].pc = "await_wait"
    /\ Becomes(RunCall(
           [World EXCEPT
               !.clients[project_calls[k].client].child = "exited"],
           k, "stop_end"))

\* create_subprocess_exec returned: self._process, the reader task, and
\* the initialize request is awaited
Spawned(k) ==
    /\ project_calls[k].pc = "await_spawn"
    /\ LET o == project_calls[k].client
       IN  Becomes(Suspend(
               [World EXCEPT !.clients[o].process = "proc",
                             !.clients[o].child = "alive",
                             !.clients[o].reader_task = "running"],
               k, "await_initialize"))

\* create_subprocess_exec raised
SpawnRaised(k) ==
    /\ project_calls[k].pc = "await_spawn"
    /\ Becomes(RunCall(World, k, "except"))

\* the reader resolved the initialize request with a result: the
\* initialized notification is written, self._initialized = True
Initialized(k) ==
    /\ project_calls[k].pc = "await_initialize"
    /\ LET o == project_calls[k].client
       IN  /\ clients[o].reader_task = "running"
           /\ clients[o].child = "alive"
           /\ clients[o].process = "proc"
           /\ Becomes(Return(
                  [World EXCEPT !.clients[o].initialized = TRUE],
                  k, "OK: Project initialized"))

\* the initialize request raised: an error response, or its timeout
InitializeRaised(k) ==
    /\ project_calls[k].pc = "await_initialize"
    /\ Becomes(RunCall(World, k, "except"))

ConcurrentNext ==
    \E k \in ToolSlots :
        \/ CallStartProject(k)
        \/ CallStopProject(k)
        \/ ShutdownOver(k)
        \/ ReaderAwaited(k)
        \/ ChildWaited(k)
        \/ Spawned(k)
        \/ SpawnRaised(k)
        \/ Initialized(k)
        \/ InitializeRaised(k)

(***************************************************************************)
(* Specifications                                                          *)
(***************************************************************************)
\* one session of the client, from __init__ on
Init == SessionInit /\ EditIdle /\ ApplyIdle /\ FramerIdle /\ ToolsIdle

Next == SessionNext

Spec == Init /\ [][Next]_vars

\* calls of _apply_edits_to_file on every text and edit list within the
\* bounds
InitEdit ==
    SessionInit /\ EditInit /\ ApplyIdle /\ FramerIdle /\ ToolsIdle

\* _apply_edits_to_file on any text with any edits
InitAnyEdit ==
    SessionInit /\ AnyEditInit /\ ApplyIdle /\ FramerIdle /\ ToolsIdle

SpecAnyEdit == InitAnyEdit /\ [][EditNext]_vars

SpecEdit == InitEdit /\ [][EditNext]_vars

\* one call of a tool that receives a WorkspaceEdit, on every project
\* within the bounds
InitApply ==
    SessionInit /\ EditIdle /\ ApplyInit /\ FramerIdle /\ ToolsIdle

SpecApply == InitApply /\ [][ApplyNext]_vars

\* start_project, stop_project and stop() in any order
SpecProject == Init /\ [][ProjectNext]_vars

\* the reader of a started session, frame by frame
InitReader ==
    /\ OneRequestOutstanding
    /\ ReaderIdle
    /\ EditIdle
    /\ ApplyIdle
    /\ FramerIdle
    /\ ToolsIdle
ReaderNext == ChildWrites \/ ReadAndHandle
SpecReader == InitReader /\ [][ReaderNext]_vars

\* every message within the bounds, encoded by _write_message and decoded
\* by _read_message
InitFrame ==
    SessionInit /\ EditIdle /\ ApplyIdle /\ FrameInit /\ ToolsIdle

SpecFrame == InitFrame /\ [][FrameNext]_vars

\* start_project and stop_project, called concurrently from a server
\* that has no project
SpecConcurrent == Init /\ [][ConcurrentNext]_vars

\* rename_symbol, called concurrently on a started session
InitRename ==
    /\ SessionStarted
    /\ ReaderIdle
    /\ EditIdle
    /\ ApplyIdle
    /\ FramerIdle
    /\ ToolsIdle

SpecRename == InitRename /\ [][RenameNext]_vars

\* the writers and the reader of the table and of the diagnostics cache
SpecTable == InitRename /\ [][TableNext]_vars

\* what the event loop does for a tool coroutine by itself: it runs the
\* coroutine up to its next await, and resumes it when its lock, its future
\* or the timer of its wait_for is ready
CallerStep(c) ==
    \/ SendRequestBegin(c)
    \/ WriteMessage(c)
    \/ LockAcquired(c)
    \/ WriteFrame(c)
    \/ AwaitDone(c)
    \/ Timeout(c)
    \/ TimeoutResume(c)
    \/ ToolReturn(c)

\* the event loop is fair to every coroutine that is ready and to the
\* reader task when there is a frame to read; nothing is assumed of the
\* child: whether it answers, reads its stdin (DrainResume) or writes
LoopIsFair ==
    /\ \A c \in Callers : WF_vars(CallerStep(c))
    /\ WF_vars(ReadAndHandle)

SpecTableFair == InitRename /\ [][TableNext]_vars /\ LoopIsFair

(***************************************************************************)
(* Properties of the session (specification Spec)                          *)
(***************************************************************************)
Resolved == {"result", "error"}

\* C1: a response resolves the table entry that has the response's id and
\* no other: the outcome a future holds, and the outcome the caller of a
\* request gets, was carried by the response with the id of that request;
\* and no future is given an outcome twice.
C1_ResponseResolvesItsOwnEntry ==
    /\ \A i \in Ids : future[i].st \in Resolved => future[i].id = i
    /\ \A p \in Procs :
          outcome[p].kind \in Resolved => outcome[p].id = outcome[p].req
    /\ \A i \in Ids : resolutions[i] <= 1

\* two requests are in flight and the response to the later one came first:
\* its caller has the outcome while the earlier request is still pending
C1_Witness ==
    \E p, q \in Procs :
        /\ pc[p] = "ret"
        /\ outcome[p].kind \in Resolved
        /\ pc[q] = "await"
        /\ cur[q] < outcome[p].req
        /\ cur[q] \in pending_requests
        /\ future[cur[q]].st = "pending"

\* C2: a request whose wait timed out is out of the table and stays out, its
\* caller got the timeout and never an outcome of a response: a response
\* that arrives for its id afterwards resolves nothing, neither the future
\* of the timed-out request nor, by C1, that of any other.
C2_TimedOutRequestLeavesTable ==
    /\ \A i \in expired :
          /\ i \notin pending_requests
          /\ future[i] = NoFuture
          /\ resolutions[i] = 0
    /\ \A p \in Procs :
          /\ outcome[p].kind = "timeout" => outcome[p].req \in expired
          /\ outcome[p].kind \in Resolved => outcome[p].req \notin expired

\* a request timed out and the response with its id was read afterwards
C2_Witness == \E i \in expired : i \in late

\* C3: the ids a session assigns are 1, 2, 3, ... in this order, so they
\* strictly increase and none is used twice, whatever happened to the
\* requests before.
C3_IdsStrictlyIncrease ==
    /\ \A k \in 1..Len(issued) : issued[k] = k
    /\ request_id = Len(issued)

\* an id was assigned after a request had timed out, and another after a
\* write had failed or a stop() had begun
C3_Witness ==
    /\ \E i \in expired : i < request_id
    /\ Len(issued) >= 3
    /\ nstops > 0

\* C4: when stop() has completed, the table is empty and nobody is left
\* waiting for a response: every request that was pending has been failed.
C4_StopFailsPendingRequests ==
    phase = "stopped" =>
        /\ pending_requests = {}
        /\ \A p \in Procs : pc[p] \notin {"await", "timedout"}

\* C5: when a call of stop() has returned, normally or by raising, the
\* session is Stopped: not initialized, no process handle, the child gone.
C5_StopLeavesSessionStopped ==
    phase \in {"stopped", "stop_raised"} =>
        /\ ~initialized
        /\ process = "None"
        /\ child # "alive"

\* what the client does by itself: the steps of the running coroutine, and
\* the resumption of a coroutine whose lock, future or timer is ready.  Not
\* included: what the child does (DrainResume, ReaderStep, ChildExit) and
\* new calls from outside (ToolCall, Start, Stop).
LoopStep ==
    \/ \E p \in Procs :
          \/ SendRequestBegin(p)
          \/ SendNotificationBegin(p)
          \/ WriteMessage(p)
          \/ LockAcquired(p)
          \/ WriteFrame(p)
          \/ AwaitDone(p)
          \/ Timeout(p)
          \/ TimeoutResume(p)
    \/ \E c \in Callers : ToolContinue(c) \/ ToolReturn(c)
    \/ ReaderCancelled
    \/ StartProjectAfterStop
    \/ StopProjectAfterStop
    \/ InitializeAnswered
    \/ InitializedSent
    \/ ShutdownAnswered
    \/ ExitSent
    \/ StopCancelReader
    \/ StopReaderAwaited
    \/ StopTerminate
    \/ StopWaitDone
    \/ StopGraceTimeout
    \/ StopKill
    \/ StopKillExited

\* a coroutine is inside _send_request
InRequest(p) ==
    /\ op[p].type = "request"
    /\ pc[p] \in {"write", "lockwait", "locked", "draining", "await",
                  "timedout"}

\* C6: once the reader loop has ended, no request that is in the table gets
\* an outcome, and no caller of a request waits forever: while one is
\* inside _send_request the client has a step of its own to take (a timer,
\* a resumption), so the wait does not hang on the child.
C6_RequestsFailAfterReaderEnds ==
    reader_task = "done" =>
        /\ \A i \in pending_requests : future[i].st \notin Resolved
        /\ (\E p \in Procs : InRequest(p)) => ENABLED LoopStep

\* the coroutines between the write of a frame and the end of its drain
Writers == {p \in Procs : pc[p] \in {"locked", "draining"}}

\* C12: at most one coroutine is between the start of the write of a frame
\* and the end of its drain, and it holds the lock; each frame enters the
\* stream whole, in one write of header and body, so the stream is a sequence
\* of whole frames, one per request id.
C12_WritesAreSerialized ==
    /\ Cardinality(Writers) <= 1
    /\ \A p \in Writers : lock = p
    /\ \A j, k \in 1..Len(stdin) :
          (j # k /\ stdin[j].id # 0) => stdin[j].id # stdin[k].id

\* a writer is suspended in drain() and another one waits for the lock
C12_Witness ==
    \E p, q \in Procs : pc[p] = "draining" /\ pc[q] = "lockwait"

\* the ways an entry leaves the table: a response took it, or the wait of
\* its request timed out
TakenOut(i) ==
    \/ resolutions[i] > 0
    \/ i \in expired
    \/ \E p \in Procs : pc[p] = "timedout" /\ cur[p] = i

\* C13: the id of a request is put into the table before _write_message is
\* called for its frame: from then on, at the write and whenever a response
\* is dispatched afterwards, the entry is in the table unless a response or
\* the timeout of the request has taken it out.
C13_IdInTableBeforeWrite ==
    /\ \A p \in Procs :
          (op[p].type = "request" /\ pc[p] \in {"write", "lockwait", "locked"})
              => (cur[p] \in pending_requests \/ resolutions[cur[p]] > 0)
    /\ \A k \in 1..Len(stdin) :
          stdin[k].id # 0 =>
              (stdin[k].id \in pending_requests \/ TakenOut(stdin[k].id))

\* the response to a request was dispatched, and found the entry, while the
\* writer of the request was still suspended in drain()
C13_Witness ==
    \E p \in Procs :
        /\ pc[p] = "draining"
        /\ op[p].type = "request"
        /\ resolutions[cur[p]] = 1

\* the places in stdin of the frames of a method
FramesOf(method) == {k \in 1..Len(stdin) : stdin[k].method = method}

\* the frames on stdin are in the order of the handshake
HandshakeOrder ==
    /\ stdin # <<>> => (reader_task # "None" /\ stdin[1].method = "initialize")
    /\ \A k \in FramesOf("initialized") :
          k = 2 /\ resolutions[stdin[1].id] = 1
    /\ initialized => FramesOf("initialized") # {}
    /\ \A k \in FramesOf("tool") : \E j \in FramesOf("initialized") : j < k
    /\ phase = "start_failed" => ~initialized

\* _initialize goes on to the initialized notification only with the result
\* of the initialize request
NotifiesAfterResult ==
    (phase = "start_init" /\ phase' = "start_notify")
        => (outcome[LC].kind = "result" /\ outcome[LC].req = stdin[1].id)

\* C14: the reader task exists before the initialize request is written; the
\* initialized notification is the second frame, written after the response
\* to initialize was received and only if it carried a result; the client is
\* initialized only with the notification written (so never when the
\* initialize request failed); and every frame of a tool call comes after
\* the notification.
C14_HandshakeBeforeToolFrames ==
    []HandshakeOrder /\ [][NotifiesAfterResult]_vars

\* a tool call has written its frame to an initialized client
C14_Witness ==
    /\ initialized
    /\ \E k \in FramesOf("tool") : k > 2

\* C15: when stop() of an initialized client has come to cancel the reader
\* with the child still running, the shutdown request it wrote is followed
\* on stdin by the exit notification.
C15_StopSendsShutdownThenExit ==
    (phase = "stop_reader" /\ child = "alive" /\ FramesOf("shutdown") # {})
        => \E k \in FramesOf("shutdown"), j \in FramesOf("exit") : k < j

\* a step in which the pending future of request i is given an exception
FailedByResponse(i) == future[i].st = "pending" /\ future'[i].st = "error"

\* the caller of a request has been resumed with the exception of an error
\* response
GotError(p) == pc[p] = "ret" /\ outcome[p].kind = "error"

\* C21: an error response fails the request whose id it carries and no
\* other: the step that sets the exception takes that id out of the table
\* and leaves every other entry, every other future and the rest of the
\* session as they were; the exception the caller gets is the one made from
\* the payload of the response with the id of its request.
C21_ErrorResponseFailsItsRequestOnly ==
    /\ [](\A p \in Procs :
             GotError(p) => /\ outcome[p].id = outcome[p].req
                            /\ outcome[p].req \notin pending_requests)
    /\ [][\A i \in Ids :
             FailedByResponse(i) =>
                 /\ i \in pending_requests
                 /\ future'[i].id = i
                 /\ pending_requests' = pending_requests \ {i}
                 /\ \A j \in Ids \ {i} : future'[j] = future[j]
                 /\ UNCHANGED <<process, child, request_id, initialized,
                                reader_task, lock, waiters, stdin, pc, op,
                                cur, outcome, phase, diagnostics>>]_vars

\* a caller got the exception of an error response while another request
\* was in the table, and that request has been resolved with a result
C21_Witness ==
    \E p, q \in Procs :
        /\ GotError(p)
        /\ pc[q] = "await"
        /\ cur[q] < outcome[p].req
        /\ future[cur[q]] = [st |-> "result", id |-> cur[q]]

\* a step in which the wait for request i times out, and the step in which
\* its caller handles the TimeoutError
TimesOut(i) == future[i].st = "pending" /\ future'[i].st = "cancelled"
Expires(i) == i \notin expired /\ i \in expired'

\* C22: the timeout of request i changes nothing but request i: its future
\* is cancelled and its entry removed, every other entry stays with its
\* future as it was, and the id counter, the diagnostics, the initialized
\* flag, the reader task, the process and the stream are unchanged.
C22_TimeoutIsLocalToItsRequest ==
    [][\A i \in Ids :
          /\ TimesOut(i) =>
                 /\ \A j \in Ids \ {i} : future'[j] = future[j]
                 /\ UNCHANGED <<pending_requests, request_id, diagnostics,
                                initialized, reader_task, process, child,
                                lock, waiters, stdin>>
          /\ Expires(i) =>
                 /\ pending_requests' = pending_requests \ {i}
                 /\ \A j \in Ids \ {i} : future'[j] = future[j]
                 /\ UNCHANGED <<request_id, diagnostics, initialized,
                                reader_task, process, child, lock, waiters,
                                stdin>>]_vars

\* a request has timed out while an earlier one was outstanding; the earlier
\* one is still in the table, pending and awaited, and the reader runs
C22_Witness ==
    \E i \in expired : \E q \in Procs :
        /\ pc[q] = "await"
        /\ cur[q] < i
        /\ cur[q] \in pending_requests
        /\ future[cur[q]].st = "pending"
        /\ reader_task = "running"
        /\ initialized

(***************************************************************************)
(* Properties of start_project and stop_project (specification             *)
(* SpecProject)                                                            *)
(***************************************************************************)
\* C16: a client that start_project makes while another one is active is
\* made, and its child spawned, only after stop() of the old client has
\* returned or raised; and once that stop() has returned or raised,
\* start_project goes on to make the new client and install it.
C16_OldClientStoppedBeforeNewStart ==
    /\ replaced \in {"none", "stopped", "stop_raised"}
    /\ (project_tool = "start_project" /\ phase \in {"stopped", "stop_raised"})
          => ENABLED StartProjectAfterStop
    /\ (replaced # "none" /\ phase \in {"unstarted", "start_init",
                                        "start_notify", "started"})
          => lsp_client = "client"

\* the stop() of the old client raised and the new client is initialized
C16_Witness ==
    /\ replaced = "stop_raised"
    /\ phase = "started"
    /\ initialized
    /\ lsp_client = "client"

\* C17: a stop() called on a stopped client does not raise, writes no frame
\* and leaves the client stopped; and a stop_project that follows a
\* stop_project which returned "OK: Project stopped" returns
\* "OK: No active project".
C17_SecondStopIsNoOp ==
    /\ stop_entry.phase = "stopped" =>
          /\ phase \in {"stop_reader", "stop_term", "stopped"}
          /\ Len(stdin) = stop_entry.frames
          /\ ~initialized
          /\ process = "None"
    /\ \A k \in 1..(Len(project_results) - 1) :
          (/\ project_results[k] =
                 Result("stop_project", "OK: Project stopped")
           /\ project_results[k + 1].tool = "stop_project")
              => project_results[k + 1].text = "OK: No active project"

\* stop() was called on a stopped client and has returned, and stop_project
\* was called again after it had stopped the project
C17_Witness ==
    /\ stop_entry.phase = "stopped"
    /\ phase = "stopped"
    /\ project_tool = "none"
    /\ \E k \in 1..(Len(project_results) - 1) :
          /\ project_results[k] =
                Result("stop_project", "OK: Project stopped")
          /\ project_results[k + 1] =
                Result("stop_project", "OK: No active project")

(***************************************************************************)
(* Properties of the reader (specification SpecReader)                     *)
(***************************************************************************)
\* the frames the reader has read: what the child wrote, less what is still
\* in the pipe
FramesRead == SubSeq(emitted, 1, Len(emitted) - Len(stdout))

IsPublish(f) == f.type = "message" /\ f.method = PublishDiagnostics

\* a well-framed publishDiagnostics notification with an entry that lacks
\* its range or its message
MalformedPublish(f) ==
    /\ f.type = "message"
    /\ f.method = PublishDiagnostics
    /\ \E k \in 1..Len(f.diagnostics) : LacksField(f.diagnostics[k])

\* a notification that _handle_server_message handles to its end
WellFormedPublish(f) == IsPublish(f) /\ ~MalformedPublish(f)

\* the positions in `dispatched` of the notifications for URI u
PublishedFor(u) == {k \in 1..Len(dispatched) : dispatched[k].uri = u}

Max(S) == CHOOSE x \in S : \A y \in S : x >= y

\* C18: the cached diagnostics of a URI are those of the last
\* publishDiagnostics notification handled for it (no entry if there was
\* none), never a merge with an earlier list, so a notification for another
\* URI does not change them; the notifications handled are the
\* publishDiagnostics frames among the frames read, in the order the child
\* wrote them (a notification whose handling raised is not handled).
C18_CacheIsLastPublished ==
    /\ \A u \in Uris :
          diagnostics[u] =
              IF PublishedFor(u) = {}
              THEN NoEntry
              ELSE Cached(dispatched[Max(PublishedFor(u))].diagnostics)
    /\ dispatched = SelectSeq(FramesRead, WellFormedPublish)

\* two notifications for one URI with different non-empty lists have been
\* handled, and another URI has an entry
C18_Witness ==
    \E u \in Uris : \E j, k \in PublishedFor(u) :
        /\ j < k
        /\ k = Max(PublishedFor(u))
        /\ dispatched[j].diagnostics # <<>>
        /\ dispatched[k].diagnostics # <<>>
        /\ dispatched[j].diagnostics # dispatched[k].diagnostics
        /\ \E v \in Uris \ {u} : diagnostics[v].present

\* C19: a frame with Content-Length 0 yields no message and the reader goes
\* on: after reading it the loop still runs, so the frames behind it are read.
C19_ZeroLengthFrameResumesFraming ==
    message.type = "zero" =>
        /\ reader_task = "running"
        /\ stdout # <<>> => ENABLED ReadAndHandle

\* a step in which the reader reads the first frame of the pipe
ReadsFrame == stdout # <<>> /\ stdout' = Tail(stdout)

\* a frame that _handle_message and _handle_server_message have no branch
\* for: an unknown method, or neither id nor method
Unhandled(f) ==
    /\ f.type = "message"
    /\ \/ f.method \notin {"none", PublishDiagnostics, LogMessage}
       \/ f.method = "none" /\ f.id = 0

\* C20: reading a frame with a method resolves and removes no entry of the
\* table, whatever id it carries; reading a frame with an unknown method,
\* or with neither id nor method, changes neither the table nor the
\* diagnostics, and the loop goes on.
C20_MethodFrameIsNotAResponse ==
    [][ReadsFrame =>
          /\ (Head(stdout).type = "message" /\ Head(stdout).method # "none")
                 => UNCHANGED <<pending_requests, future, resolutions>>
          /\ Unhandled(Head(stdout))
                 => /\ UNCHANGED <<pending_requests, future, resolutions,
                                   diagnostics>>
                    /\ reader_task' = "running"]_vars

\* the reader has read a frame with an unknown method and the id of a
\* request that is still waiting, and a frame with neither id nor method
\* was read before it
C20_Witness ==
    /\ message.type = "message"
    /\ message.method = "other"
    /\ message.id \in pending_requests
    /\ future[message.id].st = "pending"
    /\ reader_task = "running"
    /\ \E k \in 1..Len(FramesRead) :
          FramesRead[k].method = "none" /\ FramesRead[k].id = 0
             /\ FramesRead[k].type = "message"

(***************************************************************************)
(* Properties of the framing (specification SpecFrame)                     *)
(***************************************************************************)
\* C23: the Content-Length the reader takes from the header of a frame the
\* client wrote is the number of the bytes that follow the blank line, and
\* these bytes are the UTF-8 JSON body of the message; what _read_message
\* returns for the frame is the message that was written, and no byte of the
\* frame is left over.
C23_FrameRoundTrip ==
    /\ fpc = "body" =>
           /\ content_length = Len(wire)
           /\ wire = Body(out_message)
    /\ fpc = "done" =>
           /\ decoded = ReturnedMessage(out_message)
           /\ wire = <<>>

\* a request with a two-digit Content-Length whose params hold a quote and a
\* character outside ASCII has been written and read back
C23_Witness ==
    /\ fpc = "done"
    /\ content_length >= 10
    /\ \E k \in 1..Len(out_message) :
          /\ out_message[k].value.t = "str"
          /\ out_message[k].value.v = <<"QUOTE", "E_ACUTE">>
    /\ \E k \in 1..Len(out_message) : out_message[k].value.t = "int"

(***************************************************************************)
(* Properties of the edit algorithm (specification SpecEdit)               *)
(***************************************************************************)
StartOffset(s, e) == Offset(s, e.range.start)
EndOffset(s, e) == Offset(s, e.range.end)

Perms(n) ==
    {f \in [1..n -> 1..n] : \A i, j \in 1..n : i # j => f[i] # f[j]}

\* q lists edits from left to right: each ends where the next starts, or
\* before
LeftToRight(s, q) ==
    \A i, j \in 1..Len(q) : i < j => EndOffset(s, q[i]) <= StartOffset(s, q[j])

\* the left-to-right orders of the list es (more than one when several
\* edits insert at one point)
Orders(s, es) ==
    {q \in {[i \in 1..Len(es) |-> es[f[i]]] : f \in Perms(Len(es))} :
        LeftToRight(s, q)}

\* the edits of es do not overlap pairwise
NonOverlapping(s, es) == Orders(s, es) # {}

\* all edits of q made at once against s, from offset `from` on: the text
\* between the ranges is kept, each range gives way to its new text
RECURSIVE Simultaneous(_, _, _)
Simultaneous(s, q, from) ==
    IF q = <<>> THEN SubSeq(s, from + 1, Len(s))
    ELSE SubSeq(s, from + 1, StartOffset(s, Head(q)))
         \o Head(q).new_text
         \o Simultaneous(s, Tail(q), EndOffset(s, Head(q)))

\* C7: for edits that do not overlap, _apply_edits_to_file returns the
\* simultaneous application of the edits to the text of the file.
C7_AppliesEditsSimultaneously ==
    (epc = "done" /\ NonOverlapping(file_text, edits)) =>
        content \in {Simultaneous(file_text, q, 0) :
                        q \in Orders(file_text, edits)}

\* C8: for two edits that do not overlap, the text returned is the one
\* returned for the same two edits supplied in the other order.
C8_OrderOfSupplyIsIrrelevant ==
    (epc = "done" /\ Len(edits) = 2 /\ NonOverlapping(file_text, edits)) =>
        content = ApplyEditsToFile(file_text, <<edits[2], edits[1]>>)

\* C9: for the empty edit list, the text returned is the text of the file.
C9_EmptyEditSetIsIdentity ==
    (epc = "done" /\ edits = <<>>) => content = file_text

(***************************************************************************)
(* Properties of the tools that apply edits (specification SpecApply)      *)
(***************************************************************************)
\* C10: a tool writes only files whose URI is a key of the edit set it got
\* from get_all_edits, each with what the single-document algorithm returns
\* for that key's edits and the file's text; every other file keeps its
\* text; a preview (apply=False, get_edit_preview) writes no file.
C10_WritesOnlyTheFilesOfTheEditSet ==
    /\ \A path \in written :
          \E k \in 1..Len(all_edits) :
              /\ all_edits[k].uri = AsUri(path)
              /\ fs[path] = File(ApplyEditsToFile(fs0[path].text,
                                                  all_edits[k].edits))
    /\ \A path \in Paths \ written : fs[path] = fs0[path]
    /\ ~Applies(tool) => written = {}

\* C11: when the loop of a tool is left by an exception after files were
\* written, the text the tool returns names every file that was written.
C11_PartialFailureReportsModifiedFiles ==
    apc = "error" =>
        \A path \in written :
            \E k \in 1..Len(tool_result.modified) :
                tool_result.modified[k] = path

\* the URIs of a list of (uri, edits)
UrisOf(items) == {items[k].uri : k \in 1..Len(items)}

\* the edits the changes map of the data has for a URI
ChangesFor(data, uri) ==
    IF IndexOf(data.changes, uri) = 0 THEN <<>>
    ELSE data.changes[IndexOf(data.changes, uri)].edits

\* the edits of the TextDocumentEdits of a list for a URI, in order
RECURSIVE DocumentEditsFor(_, _)
DocumentEditsFor(document_changes, uri) ==
    IF document_changes = <<>> THEN <<>>
    ELSE (IF /\ Head(document_changes).kind = "edit"
             /\ Head(document_changes).uri = uri
          THEN Head(document_changes).edits ELSE <<>>)
             \o DocumentEditsFor(Tail(document_changes), uri)

\* the URIs of the data that have a changes entry or a TextDocumentEdit
UrisOfData(data) ==
    UrisOf(data.changes)
    \cup {data.documentChanges[k].uri :
             k \in {j \in 1..Len(data.documentChanges) :
                       data.documentChanges[j].kind = "edit"}}

\* C24: the edits a tool holds after normalizing the WorkspaceEdit have one
\* list for each URI of the data and for no other URI: the edits of the
\* changes map for the URI, then the edits of each TextDocumentEdit for it,
\* in order; create / rename / delete entries add nothing.
C24_NormalizedEditsPerDocument ==
    apc \notin {"idle", "got_edit"} =>
        /\ Distinct(all_edits)
        /\ UrisOf(all_edits) = UrisOfData(edit_data)
        /\ \A k \in 1..Len(all_edits) :
              all_edits[k].edits =
                  ChangesFor(edit_data, all_edits[k].uri)
                     \o DocumentEditsFor(edit_data.documentChanges,
                                         all_edits[k].uri)

(***************************************************************************)
(* Properties of rename_symbol (specification SpecRename)                  *)
(***************************************************************************)
\* the frame of request i is on the child's stdin with this method
Written(i, method) ==
    \E k \in 1..Len(stdin) : stdin[k] = [id |-> i, method |-> method]

\* _send_request raised to rename_symbol
RenameFailures == {"error", "timeout", "write_error", "not_started"}

\* a step appends a rename frame to the child's stdin
WritesRename ==
    /\ Len(stdin') = Len(stdin) + 1
    /\ stdin'[Len(stdin')].method = Rename

\* C25: a rename request is written only by a call whose prepareRename
\* request was answered with a result that is not empty; a call whose
\* prepareRename result is empty has returned None and written no rename
\* request; a call whose prepareRename raised has returned with that
\* exception and written no rename request.
C25_RenameIsTwoPhase ==
    /\ [](\A c \in Callers :
            /\ op[c].method = Rename => prepare_result[c] = "nonempty"
            /\ prepare_result[c] = "empty" =>
                  /\ pc[c] = "returned"
                  /\ op[c].method = PrepareRename
                  /\ outcome[c] = RenameReturned("None")
            /\ pc[c] = "returned" /\ prepare_result[c] = "none" =>
                  /\ op[c].method \in {PrepareRename, "none"}
                  /\ outcome[c].kind \in
                        RenameFailures \cup {"NOT_INITIALIZED"}
            /\ \A k \in 1..Len(stdin) :
                  stdin[k].method = Rename /\ cur[c] = stdin[k].id =>
                      op[c].method = Rename)
    /\ [](\A k \in 1..Len(stdin) :
            stdin[k].method = Rename =>
                \E c \in Callers : cur[c] = stdin[k].id)
    /\ [][/\ WritesRename =>
                \E c \in Callers :
                   /\ running = c
                   /\ op[c].method = Rename
                   /\ prepare_result[c] = "nonempty"
          /\ \A c \in Callers :
                /\ prepare_result'[c] # prepare_result[c] =>
                      /\ prepare_result[c] = "none"
                      /\ outcome[c] =
                            [kind |-> "result", req |-> cur[c], id |-> cur[c]]
                      /\ resolutions[cur[c]] = 1
                      /\ Written(cur[c], PrepareRename)
                /\ pc[c] = "ret" /\ op[c].method = PrepareRename
                      /\ outcome[c].kind # "result" /\ pc'[c] # pc[c] =>
                      /\ pc'[c] = "returned"
                      /\ outcome'[c] = outcome[c]
                      /\ outcome[c].kind \in RenameFailures
                      /\ stdin' = stdin]_vars

\* one call has returned the WorkspaceEdit of its rename request, another has
\* returned None for an empty prepareRename result
C25_Witness ==
    \E c, d \in Callers :
       /\ pc[c] = "returned"
       /\ outcome[c].kind = "WorkspaceEdit"
       /\ Written(cur[c], Rename)
       /\ prepare_result[d] = "empty"
       /\ pc[d] = "returned"
       /\ ~Written(cur[d], Rename)

\* a call has returned with the exception of its prepareRename request
C25_FailureWitness ==
    \E c \in Callers :
       /\ pc[c] = "returned"
       /\ op[c].method = PrepareRename
       /\ outcome[c].kind \in RenameFailures
       /\ prepare_result[c] = "none"

(***************************************************************************)
(* Order of the frames (specification Spec)                                *)
(***************************************************************************)
\* the coroutine is in a send whose frame is not yet on the child's stdin
Sending(p) == pc[p] \in {"write", "lockwait", "locked"}

\* a step appends the frame of this coroutine to the child's stdin
WritesFrameOf(p) ==
    /\ running = p
    /\ pc[p] = "locked"
    /\ stdin' = Append(stdin, FrameOf(p))

\* C26: the frames of the requests are on the child's stdin in the order of
\* their ids, which is the order in which the sends were begun: whenever a
\* frame is written, it is whole, every request begun before it has been
\* written or has failed, and every send still under way was begun later.
\* (The witness has a later request answered before an earlier one.)
C26_FramesInOrderOfSend ==
    /\ [](\A j, k \in 1..Len(stdin) :
            j < k /\ stdin[j].id # 0 /\ stdin[k].id # 0 =>
                stdin[j].id < stdin[k].id)
    /\ [][\A p \in Procs :
            WritesFrameOf(p) =>
                /\ \A q \in Procs \ {p} :
                      Sending(q) =>
                          /\ pc[q] = "lockwait"
                          /\ cur[p] # 0 /\ cur[q] # 0 => cur[p] < cur[q]
                /\ \A k \in 1..Len(waiters) :
                      \A j \in 1..(k - 1) :
                         cur[waiters[j]] # 0 /\ cur[waiters[k]] # 0 =>
                             cur[waiters[j]] < cur[waiters[k]]]_vars

\* two requests were written after the frame of a tool, in the order of
\* their ids, and the later of the two was answered while the earlier one is
\* pending
C26_Witness ==
    \E p, q \in Procs :
       /\ pc[p] = "await"
       /\ future[cur[p]].st = "pending"
       /\ pc[q] = "ret"
       /\ outcome[q].kind = "result"
       /\ cur[p] < cur[q]
       /\ \E j, k \in 1..Len(stdin) :
             /\ j < k
             /\ stdin[j].id = cur[p]
             /\ stdin[k].id = cur[q]
             /\ \E i \in 1..(j - 1) : stdin[i].method = "tool"

(***************************************************************************)
(* Life of the entries of the table (specification Spec)                   *)
(***************************************************************************)
\* the entry of the table belongs to a call of _send_request that has not
\* returned or raised yet
OwnedByCall(i) == \E p \in Procs : InRequest(p) /\ cur[p] = i

\* C27: the table holds the ids of the requests whose call is under way and
\* that neither a response nor the timeout has taken out: no entry is left
\* for a call that has returned or raised.
C27_TableHoldsAwaitedRequests ==
    /\ \A i \in pending_requests : OwnedByCall(i)
    /\ \A p \in Procs :
          InRequest(p) /\ ~TakenOut(cur[p]) => cur[p] \in pending_requests

\* the part of C27 that holds: a call under way has its entry until a
\* response or its timeout takes it
EntryKeptDuringCall ==
    \A p \in Procs :
       InRequest(p) /\ ~TakenOut(cur[p]) => cur[p] \in pending_requests

(***************************************************************************)
(* Who changes the table and the cache (specification SpecTable)           *)
(***************************************************************************)
\* a step of _send_request puts the new id into the table
Inserts(p) ==
    /\ running = p
    /\ pc[p] = "req_start"
    /\ NextId \notin pending_requests
    /\ pending_requests' = pending_requests \cup {NextId}

\* a step is one turn of the loop of _read_responses
ReaderTurn ==
    /\ running = NoProc
    /\ reader_task = "running"
    /\ stdout # <<>>
    /\ stdout' = Tail(stdout)

\* the reader takes the entry of the response it has read out of the table
ReaderRemoves ==
    /\ ReaderTurn
    /\ IsResponse(Head(stdout))
    /\ pending_requests' = pending_requests \ {Head(stdout).id}

\* the caller whose wait timed out takes its own entry out of the table
TimeoutRemoves(p) ==
    /\ pc[p] = "timedout"
    /\ pc'[p] = "ret"
    /\ pending_requests' = pending_requests \ {cur[p]}

\* the diagnostics cache changes only in a turn of the reader, for a
\* publishDiagnostics frame
CacheChangedByReader ==
    diagnostics' # diagnostics =>
        ReaderTurn /\ Head(stdout).method = PublishDiagnostics

\* C28 as stated: the table changes only by an insertion made while the
\* inserting call holds the write lock, or by a removal on the reader loop;
\* the diagnostics cache changes only on the reader loop.
C28_TableChangesUnderLockOrOnReader ==
    [][/\ pending_requests' # pending_requests =>
             \/ \E p \in Procs : Inserts(p) /\ lock = p
             \/ ReaderRemoves
       /\ CacheChangedByReader]_vars

\* C28, amended: the table changes only by _send_request inserting its new id
\* before it asks for the write lock (the call does not hold it), by the
\* reader loop removing the entry of the response it read, or by the call
\* whose wait timed out removing its own entry; the diagnostics cache changes
\* only on the reader loop.
C28_TableChangesByCallerOrReader ==
    [][/\ pending_requests' # pending_requests =>
             \/ \E p \in Procs : Inserts(p) /\ lock # p
             \/ ReaderRemoves
             \/ \E p \in Procs : TimeoutRemoves(p)
       /\ CacheChangedByReader]_vars

\* a call has put its id into the table and does not hold the lock, the
\* call of another request has taken its entry out after its timeout, and
\* the reader has cached diagnostics
C28_Witness ==
    \E p \in Procs :
       /\ pc[p] = "write"
       /\ cur[p] \in pending_requests
       /\ lock # p
       /\ \E i \in expired : i \notin pending_requests
       /\ \E u \in Uris : diagnostics[u].present

(***************************************************************************)
(* Termination of the requests (specification SpecTableFair)               *)
(***************************************************************************)
\* C29: every call of _send_request on a started session comes to its
\* return or raise, whatever the child does.
C29_EveryRequestReturns ==
    \A c \in Callers : InRequest(c) ~> pc[c] = "ret"

\* some coroutine is suspended in drain() with the lock
DrainBlocked == \E p \in Procs : pc[p] = "draining"

\* the part of C29 that holds: a call returns or raises unless a write is
\* suspended in drain()
ReturnsUnlessDrainBlocked ==
    \A c \in Callers : InRequest(c) ~> (pc[c] = "ret" \/ DrainBlocked)

(***************************************************************************)
(* Edits of any range (specification SpecAnyEdit)                          *)
(***************************************************************************)
\* the first of the remaining edits is the next to be applied, and its
\* start line is no line of the text
StartsPastLastLine ==
    /\ epc = "loop"
    /\ sorted_edits # <<>>
    /\ ~InLines(Lines(content), Head(sorted_edits).range.start)

\* C30: _apply_edits_to_file raises for no text and no edits, whatever
\* their ranges, and returns when every edit has been applied.  An edit
\* whose start line is not a line of the text it is applied to leaves that
\* text as it is and puts its new text after it; nothing follows the new
\* text when the end line is no line of the text either.
C30_AnyEditsReturnSomeText ==
    /\ epc # "raised"
    /\ epc = "done" => sorted_edits = <<>>
    /\ StartsPastLastLine =>
          LET edit == Head(sorted_edits)
              result == ApplyTextEdit(content, edit)
          IN  /\ Take(result, Len(content) + Len(edit.new_text))
                    = content \o edit.new_text
              /\ ~InLines(Lines(content), edit.range.end) =>
                    result = content \o edit.new_text

\* two edits of the same range, which starts past the last line of the text
\* at a character past the end of any line, were applied: both new texts
\* follow the text
C30_Witness ==
    /\ epc = "done"
    /\ file_text = <<"a">>
    /\ Len(edits) = 2
    /\ edits[1] = TextEdit(Range(Position(1, 2), Position(2, 2)), <<"x">>)
    /\ edits[2] = edits[1]
    /\ content = <<"a", "x", "x">>

\* the empty text with an edit that ends before it starts
C30_EmptyTextWitness ==
    /\ epc = "done"
    /\ file_text = <<>>
    /\ Len(edits) = 1
    /\ edits[1] = TextEdit(Range(Position(2, 1), Position(0, 0)), <<"x">>)
    /\ content = <<"x">>

(***************************************************************************)
(* get_all_edits as a query (specification SpecApply)                      *)
(***************************************************************************)
\* C31: get_all_edits changes nothing and returns the same lists each time:
\* the WorkspaceEdit a tool holds is the one from_dict built, whatever the
\* number of get_all_edits calls made on it, and the edits the tool holds
\* are what get_all_edits returns for that WorkspaceEdit.
C31_GetAllEditsIsAQuery ==
    apc # "idle" =>
        /\ workspace_edit = FromDict(edit_data)
        /\ apc # "got_edit" =>
              all_edits = GetAllEdits(FromDict(edit_data))

\* the part of C31 that holds: document_changes is never changed
DocumentChangesKept ==
    apc # "idle" =>
        workspace_edit.document_changes = FromDict(edit_data).document_changes

(***************************************************************************)
(* A start that fails after the spawn (specification SpecProject)          *)
(***************************************************************************)
\* C33: when start() has failed after the child was spawned, the child has
\* been terminated and the reader loop stopped, the client holds no process
\* and no client is active.
C33_FailedStartLeavesNothingBehind ==
    phase = "start_failed" =>
        /\ child # "alive"
        /\ reader_task # "running"
        /\ process = "None"
        /\ lsp_client = "None"

\* the part of C33 that holds: start_project gives up the client
FailedStartClearsClient ==
    phase = "start_failed" => lsp_client = "None" /\ ~initialized

(***************************************************************************)
(* Concurrent start_project and stop_project                               *)
(***************************************************************************)
\* every call made so far has returned
AllReturned ==
    \A k \in ToolSlots : project_calls[k].pc \in {"idle", "done"}

\* the children that run and that no tool can reach through _lsp_client
Unreachable ==
    {o \in ClientIds : clients[o].child = "alive" /\ o # global_client}

\* call k returns ERROR from the except clause of start_project
StartFails(k) ==
    /\ project_calls[k].tool = "start_project"
    /\ project_calls[k].pc # "done"
    /\ project_calls'[k].result = "ERROR"

\* a failing start_project clears a client another call installed
ClearsAnothersClient(k) ==
    /\ StartFails(k)
    /\ global_client \notin {NoClient, project_calls[k].client}

NoChildLeftUnreachable == [](AllReturned => Unreachable = {})

FailureClearsOwnClient ==
    [][\A k \in ToolSlots : ~ClearsAnothersClient(k)]_vars

\* C32: under any interleaving of concurrent start_project and
\* stop_project calls, once every call has returned each child that is
\* still alive belongs to the global client, and a start_project call that
\* fails never clears a client that a different call installed.
C32_ConcurrentProjectCallsLeakNothing ==
    NoChildLeftUnreachable /\ FailureClearsOwnClient

(***************************************************************************)
(* Frames of concurrent callers while stop() is in progress                *)
(***************************************************************************)
\* C34: once stop() has written the exit notification, no further frame is
\* written to the transport of that session: the exit frame is the last
\* frame on the child's stdin.
C34_NoFrameAfterExit ==
    \A k \in FramesOf("exit") : k = Len(stdin)

(***************************************************************************)
(* Calls on a session that stop() has returned from                        *)
(***************************************************************************)
\* stop() has returned and this session has not been replaced
StopReturned == phase = "stopped"

\* a step in which p enters _send_request or _send_notification
SendBegins(p) ==
    /\ running = p
    /\ pc[p] \in {"req_start", "notif_start"}
    /\ pc'[p] # pc[p]

\* the call raises "LSP server not started" at its guard: no id is taken,
\* no entry inserted, no frame written
RaisesNotStarted(p) ==
    /\ pc'[p] = "ret"
    /\ outcome'[p] = Raised("not_started", 0)
    /\ UNCHANGED <<request_id, pending_requests, stdin, lock, waiters>>

\* is_initialized is false, so _get_client() raises NOT_INITIALIZED
RejectedByTools == ~initialized /\ ~ClientReady

SendsRaiseAfterStop ==
    \A p \in Procs : StopReturned /\ SendBegins(p) => RaisesNotStarted(p)

ReadsMalformed ==
    /\ reader_task = "running"
    /\ stdout # <<>>
    /\ stdout' = Tail(stdout)
    /\ MalformedPublish(Head(stdout))

\* the cache and the table are as they were, and the loop has ended
FailsLikeProtocolFailure ==
    /\ UNCHANGED <<diagnostics, pending_requests, future, dispatched>>
    /\ reader_task' = "done"

\* once the loop has ended no frame is taken from the pipe or dispatched
ReaderStaysEnded ==
    reader_task = "done" =>
        /\ reader_task' = "done"
        /\ UNCHANGED <<message, dispatched, diagnostics, pending_requests,
                       future>>
        /\ SubSeq(stdout', 1, Len(stdout)) = stdout

\* C36: if handling a well-framed server notification raises (a
\* publishDiagnostics entry without its range or message), the cache entry
\* of the URI and the table are left unchanged, the reader loop ends, and
\* no frame that arrives afterwards is dispatched.
C36_RaisingHandlerEndsReader ==
    [][(ReadsMalformed => FailsLikeProtocolFailure) /\ ReaderStaysEnded]_vars

\* the loop has ended on a malformed notification for a URI that has a
\* cache entry, a request is in the table, and a later frame is in the pipe
C36_Witness ==
    /\ reader_task = "done"
    /\ MalformedPublish(message)
    /\ diagnostics[message.uri].present
    /\ pending_requests # {}
    /\ stdout # <<>>

====
